---- MODULE Spec2Model ----
(***************************************************************************)
(* A model of the quiz program: the content loader / sanitizer             *)
(* (quiz_data.py, class QuizData) and the session engine (quiz_core.py,    *)
(* class Quiz with its EnvironmentHandler in transcript mode).             *)
(*                                                                         *)
(* A Python str is a sequence of one-character strings.  A Python value    *)
(* is a record [type, val] carrying its dynamic type, so that isinstance   *)
(* and the None results of the sanitizer can be modelled.                  *)
(*                                                                         *)
(* Three specifications share the module:                                  *)
(*   SpecText  sanitize_text applied once and then again to its result     *)
(*   SpecLoad  load_quiz_data over a source of raw questions               *)
(*   Spec      Quiz.start driven by the lines of a transcript              *)
(***************************************************************************)
EXTENDS Integers, Sequences, FiniteSets, TLC

VARIABLES
  \* ---- SpecText
  t_policy,             \* self.sanitization_policy of the loader under test
  t_in,                 \* the text handed to sanitize_text
  t_res,                \* the results of the successive sanitize_text calls
  t_q,                  \* the result of sanitize_question on a question
                        \* whose prompt is t_in, once it has been called
  \* ---- SpecLoad
  load_calls,           \* number of calls of load_quiz_data so far
  source_error,         \* what open / json.load of the quiz source raises
  sanitization_policy,  \* QuizData.sanitization_policy
  quiz_length,          \* QuizData.quiz_length (the cap)
  raw_questions,        \* data.get('questions', []) of the source document
  load_pos,             \* number of raw questions the for loop has consumed
  loaded,               \* QuizData.questions while loading
  origin,               \* source position of each entry of loaded (bookkeeping)
  load_pc,              \* position inside load_quiz_data
  \* ---- Spec
  quiz_info,            \* quiz_data.quiz_info
  questions,            \* quiz_data.questions as seen by the session
  question_index,       \* Quiz.question_index (the cursor)
  correct_answers,      \* Quiz.correct_answers
  incorrect_questions,  \* Quiz.incorrect_questions
  skipped_questions,    \* Quiz.skipped_questions
  pc,                   \* position inside Quiz.start / Quiz.ask_question
  lines_left,           \* lines not yet read from the transcript input
  closed,               \* number of env_handler.close() calls
  outputs,              \* everything written to the output sink, in order
  history,              \* the session's events, in order (bookkeeping only)
  \* ---- SpecEnv
  env_input,            \* the lines of EnvironmentHandler.input_fd
  env_pos,              \* number of lines readline has returned
  env_output,           \* the characters written to EnvironmentHandler.output_fd
  env_calls,            \* the input / output calls made, in order (bookkeeping)
  env_pc,               \* "open", "closed", or "exit1" after sys.exit(1)
  \* ---- SpecCmd
  cmd_input,            \* input_str handed to the CommandProcessor
  cmd_is,               \* what is_command returned, "unset" before the call
  cmd_name,             \* what process_command returned, "unset" before the call
  cmd_help              \* what get_help_text returned, <<>> before the call

textVars == <<t_policy, t_in, t_res, t_q>>
loadVars == <<load_calls, source_error, sanitization_policy, quiz_length, raw_questions, load_pos,
              loaded, origin, load_pc>>
quizVars == <<quiz_info, questions, question_index, correct_answers, incorrect_questions,
              skipped_questions, pc, lines_left, closed, outputs, history>>
envVars == <<env_input, env_pos, env_output, env_calls, env_pc>>
cmdVars == <<cmd_input, cmd_is, cmd_name, cmd_help>>
vars == <<t_policy, t_in, t_res, t_q,
          load_calls, source_error, sanitization_policy, quiz_length, raw_questions,
          load_pos, loaded, origin, load_pc,
          quiz_info, questions, question_index, correct_answers,
          incorrect_questions, skipped_questions, pc, lines_left, closed,
          outputs, history,
          env_input, env_pos, env_output, env_calls, env_pc,
          cmd_input, cmd_is, cmd_name, cmd_help>>

(***************************************************************************)
(* Bounds of the model.                                                    *)
(***************************************************************************)
\* longest text that is enumerated character by character
MaxShort == 2
\* most raw questions in a source document
MaxRaw == 2
\* most questions handed to a session
MaxQuestions == 2
\* most lines in a transcript
MaxLines == 3
\* most calls of load_quiz_data on one loader
MaxLoads == 2

(***************************************************************************)
(* Python values.                                                          *)
(***************************************************************************)
PyNone == [type |-> "NoneType", val |-> <<>>]
PyStr(s) == [type |-> "str", val |-> s]
PyInt(n) == [type |-> "int", val |-> n]
PyBool(b) == [type |-> "bool", val |-> b]
PyList(l) == [type |-> "list", val |-> l]
PyDict(d) == [type |-> "dict", val |-> d]
\* an uncaught TypeError travelling up the call stack
PyRaise == [type |-> "TypeError", val |-> <<>>]

Min(a, b) == IF a <= b THEN a ELSE b

\* s[:n]
Slice(s, n) == SubSeq(s, 1, Min(Len(s), n))

\* the text made of n copies of the character c
Rep(c, n) == [i \in 1..n |-> c]

\* all sequences over S of length 0..n
RECURSIVE SeqsUpTo(_, _)
SeqsUpTo(S, n) ==
  IF n = 0 THEN {<<>>}
  ELSE LET shorter == SeqsUpTo(S, n - 1)
       IN shorter \cup {Append(s, c) : s \in {x \in shorter : Len(x) = n - 1}, c \in S}

(***************************************************************************)
(* QuizData.sanitize_text                                                  *)
(***************************************************************************)
max_length == 1000

\* the character class [<>]
Disallowed == {"<", ">"}

\* disallowed_patterns.search(text)
search(text) == \E i \in 1..Len(text) : text[i] \in Disallowed

IsAllowedChar(c) == c \notin Disallowed

\* disallowed_patterns.sub('', text)
sub_remove(text) == SelectSeq(text, IsAllowedChar)

\* disallowed_patterns.sub('?', text)
sub_replace(text) ==
  [i \in 1..Len(text) |-> IF text[i] \in Disallowed THEN "?" ELSE text[i]]

Policies == {"reject", "remove", "replace"}

\* sanitize_text without the lower length bound
sanitize_text_no_lower_bound(policy, text) ==
  IF ~(Len(text) <= max_length)
  THEN IF policy = "reject" THEN PyNone ELSE PyStr(Slice(text, max_length))
  ELSE IF search(text)
       THEN CASE policy = "reject" -> PyNone
              [] policy = "remove" -> PyStr(sub_remove(text))
              [] policy = "replace" -> PyStr(sub_replace(text))
              [] OTHER -> PyStr(text)
       ELSE PyStr(text)

\* sanitize_text returning an out-of-bounds text whole instead of text[:max_length]
sanitize_text_no_truncate(policy, text) ==
  IF ~(1 <= Len(text) /\ Len(text) <= max_length)
  THEN IF policy = "reject" THEN PyNone ELSE PyStr(text)
  ELSE IF search(text)
       THEN CASE policy = "reject" -> PyNone
              [] policy = "remove" -> PyStr(sub_remove(text))
              [] policy = "replace" -> PyStr(sub_replace(text))
              [] OTHER -> PyStr(text)
       ELSE PyStr(text)

\* sanitize_text rejecting an out-of-bounds text under every policy
sanitize_text_rejects_out_of_bounds(policy, text) ==
  IF ~(1 <= Len(text) /\ Len(text) <= max_length)
  THEN PyNone
  ELSE IF search(text)
       THEN CASE policy = "reject" -> PyNone
              [] policy = "remove" -> PyStr(sub_remove(text))
              [] policy = "replace" -> PyStr(sub_replace(text))
              [] OTHER -> PyStr(text)
       ELSE PyStr(text)

sanitize_text(policy, text) ==
  IF ~(1 <= Len(text) /\ Len(text) <= max_length)
  THEN IF policy = "reject" THEN PyNone ELSE PyStr(Slice(text, max_length))
  ELSE IF search(text)
       THEN CASE policy = "reject" -> PyNone
              [] policy = "remove" -> PyStr(sub_remove(text))
              [] policy = "replace" -> PyStr(sub_replace(text))
              [] OTHER -> PyStr(text)
       ELSE PyStr(text)

(***************************************************************************)
(* SpecText: the texts sanitize_text is tried on.                          *)
(***************************************************************************)
Alphabet == {"a", "?", "<", ">"}

ShortTexts == SeqsUpTo(Alphabet, MaxShort)

\* texts around the length bound: a short text before or after a long pad
LongTexts ==
  {Rep("a", n) \o s : n \in {max_length - 1, max_length}, s \in ShortTexts}
  \cup {s \o Rep("a", n) : n \in {max_length - 1, max_length}, s \in ShortTexts}

\* "Invalid <script>"
ScriptText == <<"I", "n", "v", "a", "l", "i", "d", " ",
                "<", "s", "c", "r", "i", "p", "t", ">">>

TextPool == ShortTexts \cup LongTexts \cup {ScriptText}

TextInit ==
  /\ t_policy \in Policies
  /\ t_in \in TextPool
  /\ t_res = <<>>
  /\ t_q = <<>>

\* the first call: sanitize_text(t_in)
SanitizeText ==
  /\ Len(t_res) = 0
  /\ t_res' = <<sanitize_text(t_policy, t_in)>>
  /\ UNCHANGED <<t_policy, t_in, t_q>>
  /\ UNCHANGED <<loadVars, quizVars, envVars, cmdVars>>

\* a second call on the text the first call returned
SanitizeAgain ==
  /\ Len(t_res) = 1
  /\ t_res[1].type = "str"
  /\ t_res' = Append(t_res, sanitize_text(t_policy, t_res[1].val))
  /\ UNCHANGED <<t_policy, t_in, t_q>>
  /\ UNCHANGED <<loadVars, quizVars, envVars, cmdVars>>

(***************************************************************************)
(* QuizData.sanitize_question and QuizData.validate_question               *)
(*                                                                         *)
(* A dict is the sequence of its items [key, value] in insertion order,    *)
(* which is the order in which sanitize_question visits them.              *)
(***************************************************************************)
HasKey(items, k) == \E i \in 1..Len(items) : items[i].key = k

\* items[k] for a key that is present
Get(items, k) == items[CHOOSE i \in 1..Len(items) : items[i].key = k].value

\* sanitize_text(option) for an element of a list field, whatever its type:
\* len() of a number, a bool or None raises, a nested list or dict passes the
\* length check and raises in the pattern search (or, for a dict, in the slice)
sanitize_element(policy, option) ==
  CASE option.type = "str" -> sanitize_text(policy, option.val)
    [] option.type = "list" ->
         IF ~(1 <= Len(option.val) /\ Len(option.val) <= max_length)
         THEN IF policy = "reject" THEN PyNone
              ELSE PyList(Slice(option.val, max_length))
         ELSE PyRaise
    [] option.type = "dict" ->
         IF ~(1 <= Len(option.val) /\ Len(option.val) <= max_length)
         THEN IF policy = "reject" THEN PyNone ELSE PyRaise
         ELSE PyRaise
    [] OTHER -> PyRaise

\* the loop over a list value leaving out every element that sanitizes to ''
RECURSIVE sanitize_options_drops_empty(_, _, _, _)
sanitize_options_drops_empty(policy, value, i, sanitized_options) ==
  IF i > Len(value) THEN PyList(sanitized_options)
  ELSE LET sanitized_option == sanitize_element(policy, value[i])
       IN CASE sanitized_option.type = "TypeError" -> PyRaise
            [] sanitized_option.type = "NoneType" -> PyNone
            [] sanitized_option.val = <<>> ->
                 sanitize_options_drops_empty(policy, value, i + 1,
                                              sanitized_options)
            [] OTHER -> sanitize_options_drops_empty(policy, value, i + 1,
                          Append(sanitized_options, sanitized_option))

\* the loop over the elements of a list field, from element i on
RECURSIVE sanitize_options(_, _, _, _)
sanitize_options(policy, value, i, sanitized_options) ==
  IF i > Len(value) THEN PyList(sanitized_options)
  ELSE LET sanitized_option == sanitize_element(policy, value[i])
       IN CASE sanitized_option.type = "TypeError" -> PyRaise
            [] sanitized_option.type = "NoneType" -> PyNone
            [] OTHER -> sanitize_options(policy, value, i + 1,
                                         Append(sanitized_options, sanitized_option))

\* the loop over question.items(), from item i on
RECURSIVE sanitize_items(_, _, _, _)
sanitize_items(policy, items, i, sanitized_question) ==
  IF i > Len(items) THEN PyDict(sanitized_question)
  ELSE LET key == items[i].key
           value == items[i].value
       IN CASE value.type = "str" ->
                 LET sanitized_text == sanitize_text(policy, value.val)
                 IN IF sanitized_text.type = "NoneType" THEN PyNone
                    ELSE sanitize_items(policy, items, i + 1,
                           Append(sanitized_question,
                                  [key |-> key, value |-> sanitized_text]))
            [] value.type = "list" ->
                 LET sanitized == sanitize_options(policy, value.val, 1, <<>>)
                 IN IF sanitized.type \in {"NoneType", "TypeError"} THEN sanitized
                    ELSE sanitize_items(policy, items, i + 1,
                           Append(sanitized_question,
                                  [key |-> key, value |-> sanitized]))
            [] OTHER ->
                 sanitize_items(policy, items, i + 1,
                   Append(sanitized_question, [key |-> key, value |-> value]))

\* a raw question that is not a dict has no items(): AttributeError
sanitize_question(policy, question) ==
  IF question.type # "dict" THEN PyRaise
  ELSE sanitize_items(policy, question.val, 1, <<>>)

\* the numeric value of an int or a bool (bool is a subclass of int)
IntValue(v) == IF v.type = "bool" THEN (IF v.val THEN 1 ELSE 0) ELSE v.val

\* isinstance(v, int)
IsInt(v) == v.type \in {"int", "bool"}

required_fields == <<"question", "options", "correct">>

\* validate_question without the range check on the correct index
validate_question_no_range(question) ==
  /\ \A f \in 1..Len(required_fields) : HasKey(question, required_fields[f])
  /\ Get(question, "options").type = "list"
  /\ Len(Get(question, "options").val) > 0
  /\ IsInt(Get(question, "correct"))

validate_question(question) ==
  /\ \A f \in 1..Len(required_fields) : HasKey(question, required_fields[f])
  /\ Get(question, "options").type = "list"
  /\ Len(Get(question, "options").val) > 0
  /\ IsInt(Get(question, "correct"))
  /\ 1 <= IntValue(Get(question, "correct"))
  /\ IntValue(Get(question, "correct")) <= Len(Get(question, "options").val)

\* a dict is truthy when it has at least one item; None is falsy
Truthy(v) == v.type = "dict" /\ Len(v.val) > 0

(***************************************************************************)
(* SpecLoad: the raw questions a source document is built from.  Each      *)
(* differs from a well-formed base question in at most one field.          *)
(***************************************************************************)
PyFloat(x) == [type |-> "float", val |-> x]

\* marks a field the raw question does not have
Absent == [type |-> "absent", val |-> <<>>]

IsPresent(it) == it.value.type # "absent"

Item(k, v) == [key |-> k, value |-> v]

RawQuestion(title, prompt, options, correct, note) ==
  PyDict(SelectSeq(<<Item("title", title), Item("question", prompt),
                     Item("options", options), Item("correct", correct),
                     Item("note", note)>>, IsPresent))

BasePrompt == PyStr(<<"a">>)
BaseOptions == PyList(<<PyStr(<<"a">>), PyStr(<<"?">>)>>)
BaseCorrect == PyInt(1)

TitleValues == {Absent, PyStr(<<"a">>), PyStr(<<"<">>)}

PromptValues ==
  {BasePrompt, Absent, PyStr(<<>>), PyStr(<<"a", "<">>),
   PyStr(Rep("a", max_length + 1)),
   PyStr(<<">">> \o Rep("a", max_length))}

OptionsValues ==
  {BaseOptions, Absent, PyList(<<>>), PyStr(<<"a">>),
   PyList(<<PyStr(<<"a">>), PyStr(<<">">>)>>),
   PyList(<<PyStr(<<>>), PyStr(<<"a">>)>>),
   PyList(<<PyStr(<<"a">>), PyInt(1)>>)}

CorrectValues ==
  {BaseCorrect, Absent, PyInt(0), PyInt(2), PyInt(3), PyStr(<<"a">>),
   PyBool(TRUE), PyFloat(1), PyNone}

NoteValues ==
  {Absent, PyStr(<<">">>), PyStr(<<>>), PyInt(7), PyList(<<PyStr(<<"<">>)>>)}

Differs(a, b) == IF a = b THEN 0 ELSE 1

RawPool ==
  {RawQuestion(t, p, o, c, n) :
     <<t, p, o, c, n>> \in
       {x \in TitleValues \X PromptValues \X OptionsValues \X CorrectValues
                \X NoteValues :
          Differs(x[1], Absent) + Differs(x[2], BasePrompt)
            + Differs(x[3], BaseOptions) + Differs(x[4], BaseCorrect)
            + Differs(x[5], Absent) <= 1}}
  \cup {PyStr(<<"a">>)}

\* sanitize_question on an otherwise well-formed question whose prompt is t_in
SanitizeQuestion ==
  /\ Len(t_q) = 0
  /\ t_q' = <<sanitize_question(t_policy,
                RawQuestion(Absent, PyStr(t_in), BaseOptions, BaseCorrect,
                            Absent))>>
  /\ UNCHANGED <<t_policy, t_in, t_res>>
  /\ UNCHANGED <<loadVars, quizVars, envVars, cmdVars>>

\* the values of the length cap
Caps == {-1, 0, 1}

\* the errors load_quiz_data catches; "none" when the source is read and parsed
SourceErrors == {"IOError", "JSONDecodeError"}

LoadInit ==
  /\ load_calls = 1
  /\ sanitization_policy \in Policies
  /\ quiz_length \in Caps
  /\ \/ source_error = "none" /\ raw_questions \in SeqsUpTo(RawPool, MaxRaw)
     \/ source_error \in SourceErrors /\ raw_questions = <<>>
  /\ load_pos = 0
  /\ loaded = <<>>
  /\ origin = <<>>
  /\ load_pc = "open"

(***************************************************************************)
(* QuizData.load_quiz_data                                                 *)
(***************************************************************************)
\* the source is read and parsed; the for loop is entered
LoadOpen ==
  /\ load_pc = "open"
  /\ source_error = "none"
  /\ load_pc' = "loop"
  /\ UNCHANGED <<load_calls, source_error, sanitization_policy, quiz_length, raw_questions, load_pos,
                 loaded, origin>>
  /\ UNCHANGED <<textVars, quizVars, envVars, cmdVars>>

\* the read or parse error swallowed: the load ends with no questions
LoadFail_swallows_error ==
  /\ load_pc = "open"
  /\ source_error \in SourceErrors
  /\ load_pc' = "done"
  /\ UNCHANGED <<load_calls, source_error, sanitization_policy, quiz_length, raw_questions, load_pos,
                 loaded, origin>>
  /\ UNCHANGED <<textVars, quizVars, envVars, cmdVars>>

\* open or json.load raises IOError / JSONDecodeError: sys.exit(1)
LoadFail ==
  /\ load_pc = "open"
  /\ source_error \in SourceErrors
  /\ load_pc' = "exit1"
  /\ UNCHANGED <<load_calls, source_error, sanitization_policy, quiz_length, raw_questions, load_pos,
                 loaded, origin>>
  /\ UNCHANGED <<textVars, quizVars, envVars, cmdVars>>

\* the for loop putting each accepted question in front of the earlier ones
LoadQuestion_prepends ==
  /\ load_pc = "loop"
  /\ load_pos < Len(raw_questions)
  /\ LET question == raw_questions[load_pos + 1]
         sanitized_question == sanitize_question(sanitization_policy, question)
     IN IF sanitized_question.type = "TypeError"
        THEN /\ load_pc' = "raised"
             /\ UNCHANGED <<load_pos, loaded, origin>>
        ELSE /\ load_pc' = "loop"
             /\ load_pos' = load_pos + 1
             /\ IF Truthy(sanitized_question)
                     /\ validate_question(sanitized_question.val)
                THEN /\ loaded' = <<sanitized_question.val>> \o loaded
                     /\ origin' = <<load_pos + 1>> \o origin
                ELSE UNCHANGED <<loaded, origin>>
  /\ UNCHANGED <<load_calls, source_error, sanitization_policy, quiz_length, raw_questions>>
  /\ UNCHANGED <<textVars, quizVars, envVars, cmdVars>>

\* one iteration of the for loop over raw_questions
LoadQuestion ==
  /\ load_pc = "loop"
  /\ load_pos < Len(raw_questions)
  /\ LET question == raw_questions[load_pos + 1]
         sanitized_question == sanitize_question(sanitization_policy, question)
     IN IF sanitized_question.type = "TypeError"
        THEN \* not an IOError or JSONDecodeError: the exception leaves the load
             /\ load_pc' = "raised"
             /\ UNCHANGED <<load_pos, loaded, origin>>
        ELSE /\ load_pc' = "loop"
             /\ load_pos' = load_pos + 1
             /\ IF Truthy(sanitized_question)
                     /\ validate_question(sanitized_question.val)
                THEN /\ loaded' = Append(loaded, sanitized_question.val)
                     /\ origin' = Append(origin, load_pos + 1)
                ELSE UNCHANGED <<loaded, origin>>
  /\ UNCHANGED <<load_calls, source_error, sanitization_policy, quiz_length, raw_questions>>
  /\ UNCHANGED <<textVars, quizVars, envVars, cmdVars>>

\* the length cap keeping the last quiz_length questions instead of the first
LoadCap_keeps_last ==
  /\ load_pc = "loop"
  /\ load_pos = Len(raw_questions)
  /\ IF quiz_length > 0 /\ Len(loaded) > quiz_length
     THEN /\ loaded' = SubSeq(loaded, Len(loaded) - quiz_length + 1, Len(loaded))
          /\ origin' = SubSeq(origin, Len(origin) - quiz_length + 1, Len(origin))
     ELSE UNCHANGED <<loaded, origin>>
  /\ load_pc' = "done"
  /\ UNCHANGED <<load_calls, source_error, sanitization_policy, quiz_length, raw_questions, load_pos>>
  /\ UNCHANGED <<textVars, quizVars, envVars, cmdVars>>

\* after the loop: the length cap
LoadCap ==
  /\ load_pc = "loop"
  /\ load_pos = Len(raw_questions)
  /\ IF quiz_length > 0 /\ Len(loaded) > quiz_length
     THEN /\ loaded' = Slice(loaded, quiz_length)
          /\ origin' = Slice(origin, quiz_length)
     ELSE UNCHANGED <<loaded, origin>>
  /\ load_pc' = "done"
  /\ UNCHANGED <<load_calls, source_error, sanitization_policy, quiz_length, raw_questions, load_pos>>
  /\ UNCHANGED <<textVars, quizVars, envVars, cmdVars>>

(***************************************************************************)
(* CommandProcessor                                                        *)
(***************************************************************************)
UpperCase == <<"A", "B", "C", "D", "E", "F", "G", "H", "I", "J", "K", "L", "M",
               "N", "O", "P", "Q", "R", "S", "T", "U", "V", "W", "X", "Y", "Z">>
LowerCase == <<"a", "b", "c", "d", "e", "f", "g", "h", "i", "j", "k", "l", "m",
               "n", "o", "p", "q", "r", "s", "t", "u", "v", "w", "x", "y", "z">>

LowerChar(c) ==
  IF \E i \in 1..Len(UpperCase) : UpperCase[i] = c
  THEN LowerCase[CHOOSE i \in 1..Len(UpperCase) : UpperCase[i] = c]
  ELSE c

\* the input used as it is, without lower-casing
lower_unchanged(input_str) == input_str

\* input_str.lower()
lower(input_str) == [i \in 1..Len(input_str) |-> LowerChar(input_str[i])]

\* the table with the alias n of skip left out
commands_without_n ==
  << [command |-> "restart",
      aliases |-> << <<"r", "e", "s", "t", "a", "r", "t">>, <<"r">> >>],
     [command |-> "skip",
      aliases |-> << <<"s", "k", "i", "p">>, <<"s">>,
                     <<"n", "e", "x", "t">> >>],
     [command |-> "quit",
      aliases |-> << <<"q", "u", "i", "t">>, <<"q">> >>],
     [command |-> "help",
      aliases |-> << <<"h", "e", "l", "p">>, <<"h">>, <<"?">> >>] >>

\* self.commands, in declaration order
commands ==
  << [command |-> "restart",
      aliases |-> << <<"r", "e", "s", "t", "a", "r", "t">>, <<"r">> >>],
     [command |-> "skip",
      aliases |-> << <<"s", "k", "i", "p">>, <<"s">>, <<"n">>,
                     <<"n", "e", "x", "t">> >>],
     [command |-> "quit",
      aliases |-> << <<"q", "u", "i", "t">>, <<"q">> >>],
     [command |-> "help",
      aliases |-> << <<"h", "e", "l", "p">>, <<"h">>, <<"?">> >>] >>

\* input_str in aliases
InAliases(input_str, aliases) ==
  \E j \in 1..Len(aliases) : aliases[j] = input_str

is_command(input_str) ==
  \E i \in 1..Len(commands) : InAliases(lower(input_str), commands[i].aliases)

\* process_command comparing the input as typed, without lower-casing it
process_command_case_sensitive(input_str) ==
  IF \E i \in 1..Len(commands) : InAliases(input_str, commands[i].aliases)
  THEN commands[CHOOSE i \in 1..Len(commands) :
                  /\ InAliases(input_str, commands[i].aliases)
                  /\ \A k \in 1..(i - 1) :
                       ~InAliases(input_str, commands[k].aliases)].command
  ELSE "None"

\* the first command, in declaration order, that lists the input; "None" if none
process_command(input_str) ==
  IF \E i \in 1..Len(commands) : InAliases(lower(input_str), commands[i].aliases)
  THEN commands[CHOOSE i \in 1..Len(commands) :
                  /\ InAliases(lower(input_str), commands[i].aliases)
                  /\ \A k \in 1..(i - 1) :
                       ~InAliases(lower(input_str), commands[k].aliases)].command
  ELSE "None"

\* the aliases joined with a comma and no space
RECURSIVE join_without_space(_, _)
join_without_space(sep, items) ==
  IF Len(items) = 0 THEN <<>>
  ELSE IF Len(items) = 1 THEN items[1]
  ELSE items[1] \o <<",">> \o join_without_space(sep, Tail(items))

\* sep.join(items)
RECURSIVE join(_, _)
join(sep, items) ==
  IF Len(items) = 0 THEN <<>>
  ELSE IF Len(items) = 1 THEN items[1]
  ELSE items[1] \o sep \o join(sep, Tail(items))

\* the lines get_help_text adds for the first n commands
RECURSIVE help_lines(_)
help_lines(n) ==
  IF n = 0 THEN <<>>
  ELSE help_lines(n - 1)
         \o <<" ", " ">> \o join(<<",", " ">>, commands[n].aliases) \o <<"\n">>

get_help_text ==
  <<"A", "v", "a", "i", "l", "a", "b", "l", "e", " ", "c", "o", "m", "m", "a", "n", "d", "s", ":", "\n">>
    \o help_lines(Len(commands))

(***************************************************************************)
(* str.strip, str.isdigit and int of the line the user typed               *)
(***************************************************************************)
Whitespace == {" ", "\n"}

RECURSIVE lstrip(_)
lstrip(s) ==
  IF Len(s) > 0 /\ s[1] \in Whitespace THEN lstrip(Tail(s)) ELSE s

RECURSIVE rstrip(_)
rstrip(s) ==
  IF Len(s) > 0 /\ s[Len(s)] \in Whitespace
  THEN rstrip(SubSeq(s, 1, Len(s) - 1)) ELSE s

strip(s) == rstrip(lstrip(s))

AsciiDigits == <<"0", "1", "2", "3", "4", "5", "6", "7", "8", "9">>

IsAsciiDigit(c) == \E i \in 1..Len(AsciiDigits) : AsciiDigits[i] = c

\* characters of Unicode category No for which str.isdigit() is true although
\* int() does not accept them (superscript two)
SuperscriptDigits == {"^2"}

isdigit(s) ==
  /\ Len(s) > 0
  /\ \A i \in 1..Len(s) : IsAsciiDigit(s[i]) \/ s[i] \in SuperscriptDigits

\* int(s) is defined when every character is a decimal digit
IntParses(s) == Len(s) > 0 /\ \A i \in 1..Len(s) : IsAsciiDigit(s[i])

DigitValue(c) == (CHOOSE i \in 1..Len(AsciiDigits) : AsciiDigits[i] = c) - 1

RECURSIVE int(_)
int(s) ==
  IF Len(s) = 0 THEN 0
  ELSE 10 * int(SubSeq(s, 1, Len(s) - 1)) + DigitValue(s[Len(s)])

(***************************************************************************)
(* The session: Quiz over an EnvironmentHandler in 'file' mode.            *)
(*                                                                         *)
(* A line of the output sink is a record [tag, n, m, text]; the tag names  *)
(* the format string, n, m and text are what is interpolated into it.      *)
(***************************************************************************)
Out(tag, n, m, text) == [tag |-> tag, n |-> n, m |-> m, text |-> text]

\* dict.get(key) is truthy: the value is a non-empty str
Present(v) == v.type = "str" /\ Len(v.val) > 0

\* the accepted questions a session may be given; id is the record's identity
NumOptions(k) == IF k % 2 = 0 THEN 2 ELSE 3

SessionQuestion(k) ==
  [id |-> k,
   title |-> IF k % 2 = 1 THEN PyStr(<<"t">>) ELSE PyNone,
   subtitle |-> IF k % 3 = 1 THEN PyStr(<<"s">>) ELSE PyNone,
   question |-> <<"q">>,
   options |-> [i \in 1..NumOptions(k) |-> <<"o">>],
   correct |-> 1 + (((k + 1) \div 2) % NumOptions(k))]

QuizInfos ==
  {[title |-> PyStr(<<"a">>), subtitle |-> PyNone, description |-> PyStr(<<"a">>)],
   [title |-> PyNone, subtitle |-> PyStr(<<"a">>), description |-> PyNone]}

\* the lines a transcript may hold (without the line terminator)
SessionLines ==
  { <<>>, Rep("2", 101),
    <<"h">>, <<"s">>, <<"R">>, <<"q">>,
    <<"t", "w", "o">>, <<"^2">>,
    <<"0">>, <<"2">>, <<" ", "3">> }

\* random.shuffle drawing every position afresh, so that a record may repeat
Shuffles_with_replacement(list) ==
  {[i \in 1..Len(list) |-> list[p[i]]] : p \in [1..Len(list) -> 1..Len(list)]}

\* the orders random.shuffle may leave a list in
Shuffles(list) ==
  {[i \in 1..Len(list) |-> list[p[i]]] : p \in Permutations(1..Len(list))}

QuizInit ==
  /\ quiz_info \in QuizInfos
  /\ \E n \in 0..MaxQuestions : questions = [k \in 1..n |-> SessionQuestion(k)]
  /\ question_index = 0
  /\ correct_answers = 0
  /\ incorrect_questions = <<>>
  /\ skipped_questions = <<>>
  /\ pc = "start"
  /\ lines_left \in 0..MaxLines
  /\ closed = 0
  /\ outputs = <<>>
  /\ history = <<>>

\* the lines display_quiz_info writes
display_quiz_info ==
  (IF Present(quiz_info.title)
   THEN <<Out("=== {title} ===", 0, 0, quiz_info.title.val)>> ELSE <<>>)
  \o (IF Present(quiz_info.subtitle)
      THEN <<Out("{subtitle}", 0, 0, quiz_info.subtitle.val)>> ELSE <<>>)
  \o (IF Present(quiz_info.description)
      THEN <<Out("{description}", 0, 0, quiz_info.description.val)>> ELSE <<>>)

\* Quiz.start up to the while loop
Start ==
  /\ pc = "start"
  /\ outputs' = outputs \o display_quiz_info
  /\ questions' \in Shuffles(questions)
  /\ pc' = "loop"
  /\ UNCHANGED <<quiz_info, question_index, correct_answers,
                 incorrect_questions, skipped_questions, lines_left, closed,
                 history>>
  /\ UNCHANGED <<textVars, loadVars, envVars, cmdVars>>

\* the question and its options numbered from 0
render_zero_based(question, index) ==
  (IF Present(question.title)
   THEN <<Out("\n{title}", 0, question.id, question.title.val)>> ELSE <<>>)
  \o (IF Present(question.subtitle)
      THEN <<Out("{subtitle}", 0, question.id, question.subtitle.val)>>
      ELSE <<>>)
  \o <<Out("\nQuestion {n}: {question}", index, question.id,
           question.question)>>
  \o [idx \in 1..Len(question.options) |->
        Out("{idx}. {option}", idx - 1, question.id, question.options[idx])]

\* the lines ask_question writes before it reads
render(question, index) ==
  (IF Present(question.title)
   THEN <<Out("\n{title}", 0, question.id, question.title.val)>> ELSE <<>>)
  \o (IF Present(question.subtitle)
      THEN <<Out("{subtitle}", 0, question.id, question.subtitle.val)>>
      ELSE <<>>)
  \o <<Out("\nQuestion {n}: {question}", index + 1, question.id,
           question.question)>>
  \o [idx \in 1..Len(question.options) |->
        Out("{idx}. {option}", idx, question.id, question.options[idx])]

\* the while test holds: ask_question presents questions[question_index]
Ask ==
  /\ pc = "loop"
  /\ question_index < Len(questions)
  /\ LET question == questions[question_index + 1]
     IN /\ outputs' = outputs \o render(question, question_index)
        /\ history' = Append(history, [ev |-> "present", pos |-> question_index,
                                       q |-> question.id])
  /\ pc' = "input"
  /\ UNCHANGED <<quiz_info, questions, question_index, correct_answers,
                 incorrect_questions, skipped_questions, lines_left, closed>>
  /\ UNCHANGED <<textVars, loadVars, envVars, cmdVars>>

\* the skipped count written before the missed questions
show_results_skipped_first ==
  <<Out("\nQuiz Completed!", 0, 0, <<>>),
    Out("Your score: {n}/{m}", correct_answers, Len(questions), <<>>)>>
  \o (IF Len(skipped_questions) > 0
      THEN <<Out("\nSkipped questions: {n}", Len(skipped_questions), 0, <<>>)>>
      ELSE <<>>)
  \o (IF Len(incorrect_questions) > 0
      THEN <<Out("\nYou missed the following questions:", 0, 0, <<>>)>>
           \o [i \in 1..Len(incorrect_questions) |->
                 Out("- {question}", 0, incorrect_questions[i].id,
                     incorrect_questions[i].question)]
      ELSE <<>>)

\* the score counted out of the questions that were not skipped
show_results_excludes_skipped ==
  <<Out("\nQuiz Completed!", 0, 0, <<>>),
    Out("Your score: {n}/{m}", correct_answers,
        Len(questions) - Len(skipped_questions), <<>>)>>
  \o (IF Len(incorrect_questions) > 0
      THEN <<Out("\nYou missed the following questions:", 0, 0, <<>>)>>
           \o [i \in 1..Len(incorrect_questions) |->
                 Out("- {question}", 0, incorrect_questions[i].id,
                     incorrect_questions[i].question)]
      ELSE <<>>)
  \o (IF Len(skipped_questions) > 0
      THEN <<Out("\nSkipped questions: {n}", Len(skipped_questions), 0, <<>>)>>
      ELSE <<>>)

\* the lines show_results writes
show_results ==
  <<Out("\nQuiz Completed!", 0, 0, <<>>),
    Out("Your score: {n}/{m}", correct_answers, Len(questions), <<>>)>>
  \o (IF Len(incorrect_questions) > 0
      THEN <<Out("\nYou missed the following questions:", 0, 0, <<>>)>>
           \o [i \in 1..Len(incorrect_questions) |->
                 Out("- {question}", 0, incorrect_questions[i].id,
                     incorrect_questions[i].question)]
      ELSE <<>>)
  \o (IF Len(skipped_questions) > 0
      THEN <<Out("\nSkipped questions: {n}", Len(skipped_questions), 0, <<>>)>>
      ELSE <<>>)

\* the while test failing one position early
ShowResults_before_last ==
  /\ pc = "loop"
  /\ ~(question_index + 1 < Len(questions))
  /\ outputs' = outputs \o show_results
  /\ closed' = closed + 1
  /\ pc' = "done"
  /\ UNCHANGED <<quiz_info, questions, question_index, correct_answers,
                 incorrect_questions, skipped_questions, lines_left, history>>
  /\ UNCHANGED <<textVars, loadVars, envVars, cmdVars>>

\* the while test fails: show_results, then env_handler.close
ShowResults ==
  /\ pc = "loop"
  /\ ~(question_index < Len(questions))
  /\ outputs' = outputs \o show_results
  /\ closed' = closed + 1
  /\ pc' = "done"
  /\ UNCHANGED <<quiz_info, questions, question_index, correct_answers,
                 incorrect_questions, skipped_questions, lines_left, history>>
  /\ UNCHANGED <<textVars, loadVars, envVars, cmdVars>>

(***************************************************************************)
(* Quiz.ask_question: one pass of the answer loop per line read.  The      *)
(* actions that leave the loop include the question_index += 1 that        *)
(* Quiz.start performs as soon as ask_question returns.                    *)
(***************************************************************************)
\* EnvironmentHandler.input in 'file' mode returns the line, stripped, and
\* ask_question strips it again
UserInput(line) == strip(strip(line))

\* EnvironmentHandler.input writes prompt + line to the sink
Echo(line) == Out("Your answer (or command): {line}", 0, 0, line)

\* a line can be read while ask_question waits for one
CanRead == pc = "input" /\ lines_left > 0

\* the question read from the head of the sequence whatever the cursor is
CurrentQuestion_first == questions[1]

CurrentQuestion == questions[question_index + 1]

SizeOk(user_input) == 1 <= Len(user_input) /\ Len(user_input) <= 100

\* readline returns '': "No more input data.", sys.exit(1)
InputExhausted ==
  /\ pc = "input"
  /\ lines_left = 0
  /\ pc' = "exit1"
  /\ UNCHANGED <<quiz_info, questions, question_index, correct_answers,
                 incorrect_questions, skipped_questions, lines_left, closed,
                 outputs, history>>
  /\ UNCHANGED <<textVars, loadVars, envVars, cmdVars>>

\* a line that is handled by a message and another pass of the loop
Reprompt(line, message) ==
  /\ lines_left' = lines_left - 1
  /\ outputs' = outputs \o <<Echo(line), Out(message, 0, 0, <<>>)>>
  /\ UNCHANGED <<quiz_info, questions, question_index, correct_answers,
                 incorrect_questions, skipped_questions, pc, closed, history>>

InvalidSize ==
  /\ CanRead
  /\ \E line \in SessionLines :
       /\ ~SizeOk(UserInput(line))
       /\ Reprompt(line, "Invalid input size. Please try again.")
  /\ UNCHANGED <<textVars, loadVars, envVars, cmdVars>>

\* the help command, and the else branch for a command that is none of the four
Help ==
  /\ CanRead
  /\ \E line \in SessionLines :
       /\ SizeOk(UserInput(line))
       /\ is_command(UserInput(line))
       /\ process_command(UserInput(line)) \notin {"skip", "restart", "quit"}
       /\ Reprompt(line,
            IF process_command(UserInput(line)) = "help"
            THEN "{help_text}"
            ELSE "Unknown command. Type 'help' for available commands.")
  /\ UNCHANGED <<textVars, loadVars, envVars, cmdVars>>

\* the skip branch appending the current question twice
Skip_records_twice ==
  /\ CanRead
  /\ \E line \in SessionLines :
       /\ SizeOk(UserInput(line))
       /\ is_command(UserInput(line))
       /\ process_command(UserInput(line)) = "skip"
       /\ lines_left' = lines_left - 1
       /\ skipped_questions' =
            Append(Append(skipped_questions, CurrentQuestion), CurrentQuestion)
       /\ outputs' = outputs \o <<Echo(line), Out("Question skipped.", 0, 0, <<>>)>>
       /\ history' = Append(history, [ev |-> "skip", pos |-> question_index,
                                      q |-> CurrentQuestion.id])
  /\ question_index' = question_index + 1
  /\ pc' = "loop"
  /\ UNCHANGED <<quiz_info, questions, correct_answers, incorrect_questions,
                 closed>>
  /\ UNCHANGED <<textVars, loadVars, envVars, cmdVars>>

Skip ==
  /\ CanRead
  /\ \E line \in SessionLines :
       /\ SizeOk(UserInput(line))
       /\ is_command(UserInput(line))
       /\ process_command(UserInput(line)) = "skip"
       /\ lines_left' = lines_left - 1
       /\ skipped_questions' = Append(skipped_questions, CurrentQuestion)
       /\ outputs' = outputs \o <<Echo(line), Out("Question skipped.", 0, 0, <<>>)>>
       /\ history' = Append(history, [ev |-> "skip", pos |-> question_index,
                                      q |-> CurrentQuestion.id])
  /\ question_index' = question_index + 1
  /\ pc' = "loop"
  /\ UNCHANGED <<quiz_info, questions, correct_answers, incorrect_questions,
                 closed>>
  /\ UNCHANGED <<textVars, loadVars, envVars, cmdVars>>

\* restart_quiz leaving the skipped collection as it was
restart_quiz_keeps_skipped ==
  [correct_answers |-> 0,
   incorrect_questions |-> <<>>,
   skipped_questions |-> skipped_questions,
   question_index |-> 0]

\* the values restart_quiz assigns
restart_quiz ==
  [correct_answers |-> 0,
   incorrect_questions |-> <<>>,
   skipped_questions |-> <<>>,
   question_index |-> 0]

\* restart_quiz, then the return to Quiz.start
Restart ==
  /\ CanRead
  /\ \E line \in SessionLines :
       /\ SizeOk(UserInput(line))
       /\ is_command(UserInput(line))
       /\ process_command(UserInput(line)) = "restart"
       /\ lines_left' = lines_left - 1
       /\ outputs' = outputs \o <<Echo(line), Out("Restarting quiz...", 0, 0, <<>>)>>
       /\ history' = Append(history, [ev |-> "restart", pos |-> question_index,
                                      q |-> CurrentQuestion.id])
  /\ correct_answers' = restart_quiz.correct_answers
  /\ incorrect_questions' = restart_quiz.incorrect_questions
  /\ skipped_questions' = restart_quiz.skipped_questions
  /\ questions' \in Shuffles(questions)
  /\ question_index' = restart_quiz.question_index + 1
  /\ pc' = "loop"
  /\ UNCHANGED <<quiz_info, closed>>
  /\ UNCHANGED <<textVars, loadVars, envVars, cmdVars>>

\* the quit branch returning to Quiz.start instead of leaving the process
Quit_returns ==
  /\ CanRead
  /\ \E line \in SessionLines :
       /\ SizeOk(UserInput(line))
       /\ is_command(UserInput(line))
       /\ process_command(UserInput(line)) = "quit"
       /\ lines_left' = lines_left - 1
       /\ outputs' = outputs \o <<Echo(line), Out("Exiting quiz.", 0, 0, <<>>)>>
  /\ question_index' = question_index + 1
  /\ pc' = "loop"
  /\ UNCHANGED <<quiz_info, questions, correct_answers,
                 incorrect_questions, skipped_questions, closed, history>>
  /\ UNCHANGED <<textVars, loadVars, envVars, cmdVars>>

\* sys.exit(0): nothing after the acknowledgment runs
Quit ==
  /\ CanRead
  /\ \E line \in SessionLines :
       /\ SizeOk(UserInput(line))
       /\ is_command(UserInput(line))
       /\ process_command(UserInput(line)) = "quit"
       /\ lines_left' = lines_left - 1
       /\ outputs' = outputs \o <<Echo(line), Out("Exiting quiz.", 0, 0, <<>>)>>
  /\ pc' = "exit0"
  /\ UNCHANGED <<quiz_info, questions, question_index, correct_answers,
                 incorrect_questions, skipped_questions, closed, history>>
  /\ UNCHANGED <<textVars, loadVars, envVars, cmdVars>>

NotDigits ==
  /\ CanRead
  /\ \E line \in SessionLines :
       /\ SizeOk(UserInput(line))
       /\ ~is_command(UserInput(line))
       /\ ~isdigit(UserInput(line))
       /\ Reprompt(line,
            "Invalid input. Please enter a valid option number or command.")
  /\ UNCHANGED <<textVars, loadVars, envVars, cmdVars>>

\* isdigit() accepts the line and int() raises ValueError, which nothing catches
IntRaises ==
  /\ CanRead
  /\ \E line \in SessionLines :
       /\ SizeOk(UserInput(line))
       /\ ~is_command(UserInput(line))
       /\ isdigit(UserInput(line))
       /\ ~IntParses(UserInput(line))
       /\ lines_left' = lines_left - 1
       /\ outputs' = Append(outputs, Echo(line))
  /\ pc' = "raised"
  /\ UNCHANGED <<quiz_info, questions, question_index, correct_answers,
                 incorrect_questions, skipped_questions, closed, history>>
  /\ UNCHANGED <<textVars, loadVars, envVars, cmdVars>>

InvalidOption ==
  /\ CanRead
  /\ \E line \in SessionLines :
       /\ SizeOk(UserInput(line))
       /\ ~is_command(UserInput(line))
       /\ isdigit(UserInput(line))
       /\ IntParses(UserInput(line))
       /\ ~(1 <= int(UserInput(line))
              /\ int(UserInput(line)) <= Len(CurrentQuestion.options))
       /\ Reprompt(line, "Invalid option number. Please try again.")
  /\ UNCHANGED <<textVars, loadVars, envVars, cmdVars>>

\* every valid option number counted as correct
Answer_always_correct ==
  /\ CanRead
  /\ \E line \in SessionLines :
       LET option_number == int(UserInput(line))
       IN /\ SizeOk(UserInput(line))
          /\ ~is_command(UserInput(line))
          /\ isdigit(UserInput(line))
          /\ IntParses(UserInput(line))
          /\ 1 <= option_number
          /\ option_number <= Len(CurrentQuestion.options)
          /\ lines_left' = lines_left - 1
          /\ IF option_number = option_number
             THEN /\ outputs' = outputs \o <<Echo(line), Out("Correct!", 0, 0, <<>>)>>
                  /\ correct_answers' = correct_answers + 1
                  /\ UNCHANGED incorrect_questions
                  /\ history' = Append(history,
                       [ev |-> "correct", pos |-> question_index,
                        q |-> CurrentQuestion.id])
             ELSE /\ outputs' = outputs \o <<Echo(line), Out("Incorrect.", 0, 0, <<>>)>>
                  /\ incorrect_questions' =
                       Append(incorrect_questions, CurrentQuestion)
                  /\ UNCHANGED correct_answers
                  /\ history' = Append(history,
                       [ev |-> "incorrect", pos |-> question_index,
                        q |-> CurrentQuestion.id])
  /\ question_index' = question_index + 1
  /\ pc' = "loop"
  /\ UNCHANGED <<quiz_info, questions, skipped_questions, closed>>
  /\ UNCHANGED <<textVars, loadVars, envVars, cmdVars>>

Answer ==
  /\ CanRead
  /\ \E line \in SessionLines :
       LET option_number == int(UserInput(line))
       IN /\ SizeOk(UserInput(line))
          /\ ~is_command(UserInput(line))
          /\ isdigit(UserInput(line))
          /\ IntParses(UserInput(line))
          /\ 1 <= option_number
          /\ option_number <= Len(CurrentQuestion.options)
          /\ lines_left' = lines_left - 1
          /\ IF option_number = CurrentQuestion.correct
             THEN /\ outputs' = outputs \o <<Echo(line), Out("Correct!", 0, 0, <<>>)>>
                  /\ correct_answers' = correct_answers + 1
                  /\ UNCHANGED incorrect_questions
                  /\ history' = Append(history,
                       [ev |-> "correct", pos |-> question_index,
                        q |-> CurrentQuestion.id])
             ELSE /\ outputs' = outputs \o <<Echo(line), Out("Incorrect.", 0, 0, <<>>)>>
                  /\ incorrect_questions' =
                       Append(incorrect_questions, CurrentQuestion)
                  /\ UNCHANGED correct_answers
                  /\ history' = Append(history,
                       [ev |-> "incorrect", pos |-> question_index,
                        q |-> CurrentQuestion.id])
  /\ question_index' = question_index + 1
  /\ pc' = "loop"
  /\ UNCHANGED <<quiz_info, questions, skipped_questions, closed>>
  /\ UNCHANGED <<textVars, loadVars, envVars, cmdVars>>

(***************************************************************************)
(* The specifications.                                                     *)
(***************************************************************************)
\* the variables of a part that a specification does not exercise
TextIdle == t_policy = "reject" /\ t_in = <<>> /\ t_res = <<>> /\ t_q = <<>>

LoadIdle ==
  /\ load_calls = 0
  /\ source_error = "none"
  /\ sanitization_policy = "reject"
  /\ quiz_length = 0
  /\ raw_questions = <<>>
  /\ load_pos = 0
  /\ loaded = <<>>
  /\ origin = <<>>
  /\ load_pc = "idle"

QuizIdle ==
  /\ quiz_info = [title |-> PyNone, subtitle |-> PyNone, description |-> PyNone]
  /\ questions = <<>>
  /\ question_index = 0
  /\ correct_answers = 0
  /\ incorrect_questions = <<>>
  /\ skipped_questions = <<>>
  /\ pc = "idle"
  /\ lines_left = 0
  /\ closed = 0
  /\ outputs = <<>>
  /\ history = <<>>

EnvIdle ==
  /\ env_input = <<>>
  /\ env_pos = 0
  /\ env_output = <<>>
  /\ env_calls = <<>>
  /\ env_pc = "idle"

CmdIdle ==
  /\ cmd_input = <<>>
  /\ cmd_is = "unset"
  /\ cmd_name = "unset"
  /\ cmd_help = <<>>

Init == TextIdle /\ LoadIdle /\ QuizInit /\ EnvIdle /\ CmdIdle

Next ==
  \/ Start
  \/ Ask
  \/ ShowResults
  \/ InputExhausted
  \/ InvalidSize
  \/ Help
  \/ Skip
  \/ Restart
  \/ Quit
  \/ NotDigits
  \/ IntRaises
  \/ InvalidOption
  \/ Answer

Spec == Init /\ [][Next]_vars

InitText == TextInit /\ LoadIdle /\ QuizIdle /\ EnvIdle /\ CmdIdle

NextText == SanitizeText \/ SanitizeAgain \/ SanitizeQuestion

SpecText == InitText /\ [][NextText]_vars

InitLoad == TextIdle /\ LoadInit /\ QuizIdle /\ EnvIdle /\ CmdIdle

NextLoad == LoadOpen \/ LoadFail \/ LoadQuestion \/ LoadCap

SpecLoad == InitLoad /\ [][NextLoad]_vars

(***************************************************************************)
(* main: the environment handler is built, then the quiz data is loaded,   *)
(* then the session is built over both and started.                        *)
(***************************************************************************)
\* the longest transcript given to main
MaxMainLines == 1

\* the raw questions of the sources given to main: one accepted under every
\* policy, one whose prompt holds '<', one whose options hold a number
MainPool ==
  {RawQuestion(Absent, BasePrompt, BaseOptions, BaseCorrect, Absent),
   RawQuestion(PyStr(<<"t">>), PyStr(<<"a", "<">>), BaseOptions, PyInt(2),
               Absent),
   RawQuestion(Absent, BasePrompt, PyList(<<PyStr(<<"a">>), PyInt(1)>>),
               BaseCorrect, Absent)}

MainCaps == {0, 1}

\* the state before main builds the environment handler
MainInit ==
  /\ load_calls = 1
  /\ sanitization_policy \in Policies
  /\ quiz_length \in MainCaps
  /\ \/ source_error = "none" /\ raw_questions \in SeqsUpTo(MainPool, MaxRaw)
     \/ source_error \in SourceErrors /\ raw_questions = <<>>
  /\ load_pos = 0
  /\ loaded = <<>>
  /\ origin = <<>>
  /\ load_pc = "main"
  /\ quiz_info = [title |-> PyNone, subtitle |-> PyNone, description |-> PyNone]
  /\ questions = <<>>
  /\ question_index = 0
  /\ correct_answers = 0
  /\ incorrect_questions = <<>>
  /\ skipped_questions = <<>>
  /\ pc = "idle"
  /\ lines_left \in 0..MaxMainLines
  /\ closed = 0
  /\ outputs = <<>>
  /\ history = <<>>

\* EnvironmentHandler(...) opens the transcript and the sink
MainEnvironment ==
  /\ load_pc = "main"
  /\ load_pc' = "open"
  /\ UNCHANGED <<load_calls, source_error, sanitization_policy, quiz_length, raw_questions, load_pos,
                 loaded, origin>>
  /\ UNCHANGED <<textVars, quizVars, envVars, cmdVars>>

\* EnvironmentHandler(...) cannot open a file: sys.exit(1)
MainEnvironmentFail ==
  /\ load_pc = "main"
  /\ load_pc' = "exit1_env"
  /\ UNCHANGED <<load_calls, source_error, sanitization_policy, quiz_length, raw_questions, load_pos,
                 loaded, origin>>
  /\ UNCHANGED <<textVars, quizVars, envVars, cmdVars>>

\* the title, subtitle and description a quiz document may carry, as
\* load_quiz_data reads them with data.get
MainQuizInfos ==
  QuizInfos
    \cup {[title |-> PyStr(<<"<", "b", ">">>), subtitle |-> PyNone,
           description |-> PyNone]}

\* an accepted question as the session reads it; id is its source position
QuizQuestion(question, id) ==
  [id |-> id,
   title |-> IF HasKey(question, "title") THEN Get(question, "title")
             ELSE PyNone,
   subtitle |-> IF HasKey(question, "subtitle") THEN Get(question, "subtitle")
                ELSE PyNone,
   question |-> Get(question, "question").val,
   options |-> [i \in 1..Len(Get(question, "options").val) |->
                  Get(question, "options").val[i].val],
   correct |-> IntValue(Get(question, "correct"))]

\* Quiz(quiz_data, env_handler) and the call of quiz.start()
MainQuiz ==
  /\ load_pc = "done"
  /\ pc = "idle"
  /\ load_pc' = "returned"
  /\ quiz_info' \in MainQuizInfos
  /\ questions' = [i \in 1..Len(loaded) |-> QuizQuestion(loaded[i], origin[i])]
  /\ question_index' = 0
  /\ correct_answers' = 0
  /\ incorrect_questions' = <<>>
  /\ skipped_questions' = <<>>
  /\ pc' = "start"
  /\ UNCHANGED <<lines_left, closed, outputs, history>>
  /\ UNCHANGED <<load_calls, source_error, sanitization_policy, quiz_length, raw_questions, load_pos,
                 loaded, origin>>
  /\ UNCHANGED <<textVars, envVars, cmdVars>>

InitMain == TextIdle /\ MainInit /\ EnvIdle /\ CmdIdle

NextMain ==
  \/ MainEnvironment
  \/ MainEnvironmentFail
  \/ LoadOpen
  \/ LoadFail
  \/ LoadQuestion
  \/ LoadCap
  \/ MainQuiz
  \/ Start
  \/ Ask
  \/ ShowResults
  \/ InputExhausted
  \/ InvalidSize
  \/ Help
  \/ Skip
  \/ Restart
  \/ Quit
  \/ NotDigits
  \/ IntRaises
  \/ InvalidOption
  \/ Answer

SpecMain == InitMain /\ [][NextMain]_vars

(***************************************************************************)
(* A second call of load_quiz_data on the same QuizData object, as the     *)
(* tests make it: self.questions is assigned [] in __init__ only, so the   *)
(* second call starts from the list the first one left.                    *)
(***************************************************************************)
\* the first load, of a source drawn from the small pool
ReloadInit ==
  /\ load_calls = 1
  /\ sanitization_policy \in Policies
  /\ quiz_length \in Caps
  /\ \/ source_error = "none" /\ raw_questions \in SeqsUpTo(MainPool, MaxRaw)
     \/ source_error \in SourceErrors /\ raw_questions = <<>>
  /\ load_pos = 0
  /\ loaded = <<>>
  /\ origin = <<>>
  /\ load_pc = "open"

\* load_quiz_data() called again once the previous call has returned
Reload ==
  /\ load_pc = "done"
  /\ load_calls < MaxLoads
  /\ load_calls' = load_calls + 1
  /\ load_pos' = 0
  /\ load_pc' = "open"
  /\ UNCHANGED <<source_error, sanitization_policy, quiz_length, raw_questions,
                 loaded, origin>>
  /\ UNCHANGED <<textVars, quizVars, envVars, cmdVars>>

InitReload == TextIdle /\ ReloadInit /\ QuizIdle /\ EnvIdle /\ CmdIdle

NextReload == LoadOpen \/ LoadFail \/ LoadQuestion \/ LoadCap \/ Reload

SpecReload == InitReload /\ [][NextReload]_vars

(***************************************************************************)
(* EnvironmentHandler in 'file' mode.  A line of the input file is its     *)
(* characters with the terminator "\n"; only the last line of a file may   *)
(* lack it.  The sink is the sequence of characters written to it.         *)
(***************************************************************************)
\* the most lines an input file holds, and the most calls made on a handler
MaxEnvLines == 2
MaxEnvCalls == 3

EnvLines ==
  { <<"\n">>, <<"2", "\n">>, <<" ", "s", " ", "\n">>, <<"q">> }

IsTerminated(line) == line[Len(line)] = "\n"

\* the input files: every line but the last ends with the terminator
EnvFiles ==
  {f \in SeqsUpTo(EnvLines, MaxEnvLines) :
     \A i \in 1..(Len(f) - 1) : IsTerminated(f[i])}

\* the prompts of input (the default '' and a prompt) and the texts of output
EnvPrompts == { <<>>, <<":", " ">> }
EnvTexts == { <<>>, <<"o", "k">> }

EnvInit ==
  /\ env_input \in EnvFiles
  /\ env_pos = 0
  /\ env_output = <<>>
  /\ env_calls = <<>>
  /\ env_pc = "open"

\* input_fd.readline(): the next line, '' at the end of the file
readline ==
  IF env_pos < Len(env_input) THEN env_input[env_pos + 1] ELSE <<>>

\* input writing the prompt and the line without its surrounding whitespace
EnvInput_echoes_trimmed ==
  /\ env_pc = "open"
  /\ Len(env_calls) < MaxEnvCalls
  /\ readline # <<>>
  /\ \E prompt \in EnvPrompts :
       /\ env_output' = env_output \o prompt \o strip(readline)
       /\ env_calls' = Append(env_calls, [op |-> "input", arg |-> prompt,
                                          ret |-> strip(readline)])
  /\ env_pos' = env_pos + 1
  /\ UNCHANGED <<env_input, env_pc>>
  /\ UNCHANGED <<textVars, loadVars, quizVars, cmdVars>>

\* input(prompt) when readline returns a line
EnvInput ==
  /\ env_pc = "open"
  /\ Len(env_calls) < MaxEnvCalls
  /\ readline # <<>>
  /\ \E prompt \in EnvPrompts :
       /\ env_output' = env_output \o prompt \o readline
       /\ env_calls' = Append(env_calls, [op |-> "input", arg |-> prompt,
                                          ret |-> strip(readline)])
  /\ env_pos' = env_pos + 1
  /\ UNCHANGED <<env_input, env_pc>>
  /\ UNCHANGED <<textVars, loadVars, quizVars, cmdVars>>

\* input at the end of the file returning the empty answer
EnvInputExhausted_returns_empty ==
  /\ env_pc = "open"
  /\ Len(env_calls) < MaxEnvCalls
  /\ readline = <<>>
  /\ \E prompt \in EnvPrompts :
       /\ env_output' = env_output \o prompt
       /\ env_calls' = Append(env_calls, [op |-> "input", arg |-> prompt,
                                          ret |-> <<>>])
  /\ UNCHANGED <<env_input, env_pos, env_pc>>
  /\ UNCHANGED <<textVars, loadVars, quizVars, cmdVars>>

\* input(prompt) when readline returns '': logging.error, sys.exit(1)
EnvInputExhausted ==
  /\ env_pc = "open"
  /\ Len(env_calls) < MaxEnvCalls
  /\ readline = <<>>
  /\ env_pc' = "exit1"
  /\ UNCHANGED <<env_input, env_pos, env_output, env_calls>>
  /\ UNCHANGED <<textVars, loadVars, quizVars, cmdVars>>

\* output(text): print(text, file=output_fd)
EnvOutput ==
  /\ env_pc = "open"
  /\ Len(env_calls) < MaxEnvCalls
  /\ \E text \in EnvTexts :
       /\ env_output' = env_output \o text \o <<"\n">>
       /\ env_calls' = Append(env_calls, [op |-> "output", arg |-> text,
                                          ret |-> <<>>])
  /\ UNCHANGED <<env_input, env_pos, env_pc>>
  /\ UNCHANGED <<textVars, loadVars, quizVars, cmdVars>>

\* close(): both files are closed
EnvClose ==
  /\ env_pc = "open"
  /\ env_pc' = "closed"
  /\ UNCHANGED <<env_input, env_pos, env_output, env_calls>>
  /\ UNCHANGED <<textVars, loadVars, quizVars, cmdVars>>

InitEnv == TextIdle /\ LoadIdle /\ QuizIdle /\ EnvInit /\ CmdIdle

NextEnv == EnvInput \/ EnvInputExhausted \/ EnvOutput \/ EnvClose

SpecEnv == InitEnv /\ [][NextEnv]_vars

(***************************************************************************)
(* CommandProcessor called on one input string.                            *)
(***************************************************************************)
\* the longest input built from single characters
MaxCmdLen == 2

UpperChar(c) ==
  IF \E i \in 1..Len(LowerCase) : LowerCase[i] = c
  THEN UpperCase[CHOOSE i \in 1..Len(LowerCase) : LowerCase[i] = c]
  ELSE c

\* str.upper() and str.capitalize(), to build inputs in other casings
upper(input_str) == [i \in 1..Len(input_str) |-> UpperChar(input_str[i])]

capitalize(input_str) ==
  [i \in 1..Len(input_str) |->
     IF i = 1 THEN UpperChar(input_str[i]) ELSE LowerChar(input_str[i])]

CmdAlphabet == {"r", "R", "s", "n", "Q", "h", "?", "x"}

\* every alias of the table
CmdAliases ==
  UNION {{commands[i].aliases[j] : j \in 1..Len(commands[i].aliases)} :
           i \in 1..Len(commands)}

CmdInputs ==
  SeqsUpTo(CmdAlphabet, MaxCmdLen)
    \cup CmdAliases
    \cup {upper(w) : w \in CmdAliases}
    \cup {capitalize(w) : w \in CmdAliases}
    \cup {<<"r", "e", "s", "t", "a", "r">>, <<"n", "e", "x", " ", "t">>,
          <<" ", "q">>, <<"q", "u", "i", "t", "s">>}

CmdInit ==
  /\ cmd_input \in CmdInputs
  /\ cmd_is = "unset"
  /\ cmd_name = "unset"
  /\ cmd_help = <<>>

\* is_command(input_str)
CmdIsCommand ==
  /\ cmd_is = "unset"
  /\ cmd_is' = IF is_command(cmd_input) THEN "True" ELSE "False"
  /\ UNCHANGED <<cmd_input, cmd_name, cmd_help>>
  /\ UNCHANGED <<textVars, loadVars, quizVars, envVars>>

\* process_command(input_str)
CmdProcessCommand ==
  /\ cmd_name = "unset"
  /\ cmd_name' = process_command(cmd_input)
  /\ UNCHANGED <<cmd_input, cmd_is, cmd_help>>
  /\ UNCHANGED <<textVars, loadVars, quizVars, envVars>>

\* get_help_text()
CmdGetHelpText ==
  /\ cmd_help = <<>>
  /\ cmd_help' = get_help_text
  /\ UNCHANGED <<cmd_input, cmd_is, cmd_name>>
  /\ UNCHANGED <<textVars, loadVars, quizVars, envVars>>

InitCmd == TextIdle /\ LoadIdle /\ QuizIdle /\ EnvIdle /\ CmdInit

NextCmd == CmdIsCommand \/ CmdProcessCommand \/ CmdGetHelpText

SpecCmd == InitCmd /\ [][NextCmd]_vars

(***************************************************************************)
(* Properties of the session (checked under Spec).                         *)
(***************************************************************************)
\* the positions in history of the restart commands
RestartPositions == {i \in 1..Len(history) : history[i].ev = "restart"}

\* the position of the last restart command, 0 if there was none
LastRestart ==
  IF RestartPositions = {} THEN 0
  ELSE CHOOSE i \in RestartPositions : \A j \in RestartPositions : j <= i

\* the events of the current pass
CurrentPass == SubSeq(history, LastRestart + 1, Len(history))

IsCorrectEvent(e) == e.ev = "correct"
IsIncorrectEvent(e) == e.ev = "incorrect"
IsSkipEvent(e) == e.ev = "skip"

\* the question ids of a sequence of events / of question records
EventIds(events) == [i \in 1..Len(events) |-> events[i].q]
RecordIds(records) == [i \in 1..Len(records) |-> records[i].id]

\* b holds the same records as a, in some order
IsPermutationOf(b, a) ==
  /\ Len(b) = Len(a)
  /\ \A i \in 1..Len(a) :
       Cardinality({j \in 1..Len(b) : b[j] = a[i]})
         = Cardinality({j \in 1..Len(a) : a[j] = a[i]})

\* C1: after a restart command the new pass begins at cursor 0: the question
\* presented next is the one at position 0 of the reshuffled sequence, and
\* every position 0..N-1 is presented in the new pass before the results are
\* shown.
C1_RestartPassBeginsAtCursorZero ==
  /\ \A i \in RestartPositions :
       i < Len(history) =>
         history[i + 1].ev = "present" /\ history[i + 1].pos = 0
  /\ (pc = "done" /\ RestartPositions # {}) =>
       \A p \in 0..(Len(questions) - 1) :
         \E j \in (LastRestart + 1)..Len(history) :
           history[j].ev = "present" /\ history[j].pos = p

\* C2: when the user restarts and then answers every question correctly (no
\* wrong answer and no skip after the last restart), the run completes with
\* the correct count equal to the number of questions and an empty incorrect
\* collection.
C2_RestartThenAllCorrectScoresTotal ==
  (/\ pc = "done"
   /\ RestartPositions # {}
   /\ \A j \in 1..Len(CurrentPass) : CurrentPass[j].ev \in {"present", "correct"})
  => (correct_answers = Len(questions) /\ incorrect_questions = <<>>)

\* a step that executes a restart command
IsRestartStep ==
  /\ Len(history') = Len(history) + 1
  /\ history'[Len(history')].ev = "restart"

\* C3: a restart command, at any question and in any state, sets the correct
\* count to 0, empties the incorrect and skipped collections and leaves the
\* sequence a permutation of the same questions; at completion the score, the
\* missed list and the skipped list are made of the answers and skips given
\* after the last restart only.
C3_RestartResetsSession ==
  /\ [][IsRestartStep =>
          /\ correct_answers' = 0
          /\ incorrect_questions' = <<>>
          /\ skipped_questions' = <<>>
          /\ IsPermutationOf(questions', questions)]_vars
  /\ [](pc = "done" =>
          /\ correct_answers = Len(SelectSeq(CurrentPass, IsCorrectEvent))
          /\ RecordIds(incorrect_questions)
               = EventIds(SelectSeq(CurrentPass, IsIncorrectEvent))
          /\ RecordIds(skipped_questions)
               = EventIds(SelectSeq(CurrentPass, IsSkipEvent)))

\* a completed run in which an answer or a skip was followed by a restart and
\* the new pass had an answer or a skip of its own
C3_Witness ==
  /\ pc = "done"
  /\ \E j \in 1..LastRestart : history[j].ev \in {"correct", "incorrect", "skip"}
  /\ \E j \in 1..Len(CurrentPass) :
       CurrentPass[j].ev \in {"correct", "incorrect", "skip"}

(***************************************************************************)
(* Properties of the loader (checked under SpecLoad) and of sanitize_text  *)
(* (checked under SpecText).                                               *)
(***************************************************************************)
ContainsAngle(t) == \E i \in 1..Len(t) : t[i] = "<" \/ t[i] = ">"

\* the strings of a question: its string-valued fields and the strings inside
\* its list-valued fields
StringsOf(items) ==
  {items[i].value.val : i \in {k \in 1..Len(items) : items[k].value.type = "str"}}
  \cup UNION {
         {items[i].value.val[j].val :
            j \in {k \in 1..Len(items[i].value.val) :
                     items[i].value.val[k].type = "str"}} :
         i \in {k \in 1..Len(items) : items[k].value.type = "list"}}

\* the source positions of the raw questions that were not accepted
Dropped ==
  {k \in 1..load_pos : \A i \in 1..Len(origin) : origin[i] # k}

\* C4: under any policy, every question in the accepted sequence has a
\* non-empty options list and an integer correct index c with
\* 1 <= c <= len(options).
C4_AcceptedHaveOptionsAndValidIndex ==
  \A i \in 1..Len(loaded) :
    /\ HasKey(loaded[i], "options")
    /\ Get(loaded[i], "options").type = "list"
    /\ Len(Get(loaded[i], "options").val) >= 1
    /\ HasKey(loaded[i], "correct")
    /\ Get(loaded[i], "correct").type \in {"int", "bool"}
    /\ 1 <= IntValue(Get(loaded[i], "correct"))
    /\ IntValue(Get(loaded[i], "correct")) <= Len(Get(loaded[i], "options").val)

\* a finished load that accepted a question and dropped one whose correct
\* index is an integer outside the range of its options
C4_Witness ==
  /\ load_pc = "done"
  /\ Len(loaded) >= 1
  /\ \E k \in Dropped :
       /\ raw_questions[k].type = "dict"
       /\ HasKey(raw_questions[k].val, "options")
       /\ Get(raw_questions[k].val, "options").type = "list"
       /\ HasKey(raw_questions[k].val, "correct")
       /\ Get(raw_questions[k].val, "correct").type = "int"
       /\ Get(raw_questions[k].val, "correct").val
            > Len(Get(raw_questions[k].val, "options").val)

\* C5: under policy reject no question is accepted if any of its strings (a
\* string-valued field, required, optional or unrecognized, or a string inside
\* a list-valued field) contains '<' or '>' or has length 0 or above 1000.
C5_RejectAcceptsNoBadText ==
  sanitization_policy = "reject" =>
    \A i \in 1..Len(loaded) :
      \A t \in StringsOf(raw_questions[origin[i]].val) :
        ~ContainsAngle(t) /\ 1 <= Len(t) /\ Len(t) <= 1000

\* a finished load under reject that accepted a question and dropped one that
\* validation would have passed but for a bad string in an extra field
C5_Witness ==
  /\ load_pc = "done"
  /\ sanitization_policy = "reject"
  /\ Len(loaded) >= 1
  /\ \E k \in Dropped :
       /\ raw_questions[k].type = "dict"
       /\ HasKey(raw_questions[k].val, "note")
       /\ Get(raw_questions[k].val, "note").type = "str"
       /\ (ContainsAngle(Get(raw_questions[k].val, "note").val)
             \/ Len(Get(raw_questions[k].val, "note").val) = 0)

\* C6: after a load under policy remove or replace, no string field and no
\* string inside a list field of an accepted question contains '<' or '>'.
C6_RemoveReplaceLeaveNoAngle ==
  sanitization_policy \in {"remove", "replace"} =>
    \A i \in 1..Len(loaded) :
      \A t \in StringsOf(loaded[i]) : ~ContainsAngle(t)

\* C7: under remove and under replace, sanitizing the result of sanitize_text
\* again gives the same text, for every text including the empty one and
\* those above the length bound.
C7_SanitizeTextIdempotent ==
  (t_policy \in {"remove", "replace"} /\ Len(t_res) = 2) => t_res[2] = t_res[1]

\* the text with every '<' and '>' deleted, the other characters in order
RECURSIVE DeleteAnglesFrom(_, _)
DeleteAnglesFrom(t, i) ==
  IF i > Len(t) THEN <<>>
  ELSE (IF t[i] = "<" \/ t[i] = ">" THEN <<>> ELSE <<t[i]>>)
         \o DeleteAnglesFrom(t, i + 1)

\* the text with every '<' and '>' turned into '?'
AnglesToQuestionMarks(t) ==
  [i \in 1..Len(t) |-> IF t[i] = "<" \/ t[i] = ">" THEN "?" ELSE t[i]]

\* C8: for a text of length 1..1000, sanitize_text returns under remove the
\* text without its '<' and '>', under replace the text with each of them
\* turned into '?', and under reject no value if the text contains one and
\* the text itself otherwise; "Invalid <script>" gives "Invalid ",
\* "Invalid ?script?" and no value.
C8_SanitizeTextWithinBounds ==
  (Len(t_res) >= 1 /\ 1 <= Len(t_in) /\ Len(t_in) <= 1000) =>
    /\ t_policy = "remove" => t_res[1] = PyStr(DeleteAnglesFrom(t_in, 1))
    /\ t_policy = "replace" => t_res[1] = PyStr(AnglesToQuestionMarks(t_in))
    /\ t_policy = "reject" =>
         t_res[1] = (IF ContainsAngle(t_in) THEN PyNone ELSE PyStr(t_in))
    /\ t_in = ScriptText =>
         t_res[1] = CASE t_policy = "remove" ->
                           PyStr(<<"I", "n", "v", "a", "l", "i", "d", " ">>)
                      [] t_policy = "replace" ->
                           PyStr(<<"I", "n", "v", "a", "l", "i", "d", " ",
                                   "?", "s", "c", "r", "i", "p", "t", "?">>)
                      [] t_policy = "reject" -> PyNone

\* C9: under every policy, every string field and every string inside a list
\* field of an accepted question has a length between 1 and 1000.
C9_AcceptedStringsWithinBounds ==
  \A i \in 1..Len(loaded) :
    \A t \in StringsOf(loaded[i]) : 1 <= Len(t) /\ Len(t) <= 1000

\* C9 as amended: under every policy the strings of an accepted question have
\* at most 1000 characters, and under reject at least one.
C9_AcceptedStringsAtMostBound ==
  \A i \in 1..Len(loaded) :
    \A t \in StringsOf(loaded[i]) :
      /\ Len(t) <= 1000
      /\ sanitization_policy = "reject" => Len(t) >= 1

\* a finished load that accepted a question one of whose strings was longer
\* than 1000 characters in the source
C9_Witness ==
  /\ load_pc = "done"
  /\ \E i \in 1..Len(loaded) :
       \E t \in StringsOf(raw_questions[origin[i]].val) : Len(t) > 1000

\* C10: under remove or replace a text of length 0 or above 1000 is not
\* rejected: sanitize_text returns the first 1000 characters of it (all of it
\* when it is shorter), and sanitize_question returns the candidate that goes
\* on to validation.
C10_OutOfBoundsTextIsTruncated ==
  (t_policy \in {"remove", "replace"} /\ (Len(t_in) = 0 \/ Len(t_in) > 1000)) =>
    /\ Len(t_res) >= 1 =>
         /\ t_res[1].type = "str"
         /\ Len(t_res[1].val) <= 1000
         /\ Len(t_res[1].val) = Min(Len(t_in), 1000)
         /\ \A i \in 1..Len(t_res[1].val) : t_res[1].val[i] = t_in[i]
    /\ Len(t_q) = 1 =>
         /\ t_q[1].type = "dict"
         /\ HasKey(t_q[1].val, "question")
         /\ Len(Get(t_q[1].val, "question").val) <= 1000

\* both calls have been made under replace on a text of more than 1000
\* characters
C10_Witness ==
  /\ t_policy = "replace"
  /\ Len(t_in) > 1000
  /\ Len(t_res) >= 1
  /\ Len(t_q) = 1

\* a raw question the loader is to accept under the current policy: a dict
\* with a prompt, a non-empty list of option strings and an integer correct
\* index in range, all of whose list elements are strings and, under reject,
\* none of whose strings is empty, over-long or holds '<' or '>'
AcceptableRaw(q) ==
  /\ q.type = "dict"
  /\ HasKey(q.val, "question")
  /\ HasKey(q.val, "options")
  /\ HasKey(q.val, "correct")
  /\ Get(q.val, "options").type = "list"
  /\ Len(Get(q.val, "options").val) >= 1
  /\ \A i \in 1..Len(q.val) :
       q.val[i].value.type = "list" =>
         \A j \in 1..Len(q.val[i].value.val) :
           q.val[i].value.val[j].type = "str"
  /\ Get(q.val, "correct").type \in {"int", "bool"}
  /\ 1 <= IntValue(Get(q.val, "correct"))
  /\ IntValue(Get(q.val, "correct")) <= Len(Get(q.val, "options").val)
  /\ sanitization_policy = "reject" =>
       \A t \in StringsOf(q.val) :
         ~ContainsAngle(t) /\ 1 <= Len(t) /\ Len(t) <= 1000

\* the source positions of the accepted questions
AcceptedPositions == {origin[i] : i \in 1..Len(origin)}

\* C11: a raw question that cannot be accepted never aborts the load: the
\* loader drops it and goes on, so the load never ends in an exception, and
\* every acceptable question before and after it is accepted.
C11_BadQuestionNeverAbortsLoad ==
  /\ load_pc # "raised"
  /\ load_pc = "loop" =>
       \A k \in 1..load_pos :
         AcceptableRaw(raw_questions[k]) => k \in AcceptedPositions

\* the questions the loop accepts from the first n raw questions: the
\* sanitized form of each one that passes sanitization and validation
RECURSIVE AcceptedUpTo(_)
AcceptedUpTo(n) ==
  IF n = 0 THEN <<>>
  ELSE LET sanitized == sanitize_question(sanitization_policy, raw_questions[n])
       IN IF sanitized.type = "dict" /\ Len(sanitized.val) > 0
               /\ validate_question(sanitized.val)
          THEN Append(AcceptedUpTo(n - 1), sanitized.val)
          ELSE AcceptedUpTo(n - 1)

\* C12: before the cap is applied the accepted sequence is exactly the
\* sanitized forms of the raw questions that pass sanitization and
\* validation, in their source order, none reordered and none duplicated.
C12_AcceptedInSourceOrder ==
  load_pc \in {"loop", "raised"} =>
    /\ loaded = AcceptedUpTo(load_pos)
    /\ \A i \in 1..Len(origin) : \A j \in 1..Len(origin) :
         i < j => origin[i] < origin[j]

\* the loop has accepted two different questions, one after the other
C12_Witness ==
  /\ load_pc = "loop"
  /\ Len(loaded) >= 2
  /\ loaded[1] # loaded[2]

\* C13: the cap applies to the accepted questions, after validation: with
\* cap > 0 and more than cap accepted questions the result is the first cap
\* of them in source order; otherwise every accepted question is retained.
C13_CapKeepsFirstAccepted ==
  load_pc = "done" =>
    LET accepted == AcceptedUpTo(Len(raw_questions))
    IN IF quiz_length > 0 /\ Len(accepted) > quiz_length
       THEN loaded = [i \in 1..quiz_length |-> accepted[i]]
       ELSE loaded = accepted

\* a finished load with a cap of 1 that found two different acceptable
\* questions after a dropped one
C13_Witness ==
  /\ load_pc = "done"
  /\ quiz_length = 1
  /\ Len(loaded) = 1
  /\ \E k \in 1..Len(raw_questions) :
       /\ k \notin AcceptedPositions
       /\ AcceptableRaw(raw_questions[k])
       /\ sanitize_question(sanitization_policy, raw_questions[k]).val # loaded[1]

\* C14: when the quiz source cannot be read or parsed the load ends the
\* process with exit status 1: the session is never built, no question
\* sequence reaches it, no line is emitted, no input is read, and nothing
\* happens afterwards.
C14_FatalLoadStartsNoSession ==
  /\ []((source_error \in SourceErrors
           /\ load_pc \notin {"main", "open", "exit1_env"}) =>
          load_pc = "exit1")
  /\ [](source_error \in SourceErrors =>
          /\ pc = "idle"
          /\ questions = <<>>
          /\ outputs = <<>>
          /\ history = <<>>)
  /\ [][(source_error \in SourceErrors) => (quizVars' = quizVars)]_vars
  /\ [][load_pc # "exit1"]_vars

\* the load of a source that does not parse was fatal while the transcript
\* held a line
C14_Witness ==
  /\ load_pc = "exit1"
  /\ source_error = "JSONDecodeError"
  /\ lines_left > 0

(***************************************************************************)
(* Steps of the session that read a line.                                  *)
(***************************************************************************)
\* the step reads one line of the transcript
ReadsLine == pc = "input" /\ lines_left' = lines_left - 1

IsEcho(o) == o.tag = "Your answer (or command): {line}"

\* the line the step reads, trimmed, as the sink echoes it
LineRead == strip(outputs'[Len(outputs) + 1].text)

\* the message the step emits after the echo of the line
MessageEmitted == outputs'[Len(outputs')].tag

\* the question waiting for the line
AskedQuestion == questions[question_index + 1]

\* s is made of decimal digits only
DecimalDigits(s) ==
  /\ Len(s) > 0
  /\ \A i \in 1..Len(s) :
       s[i] \in {"0", "1", "2", "3", "4", "5", "6", "7", "8", "9"}

\* s is the command named by name
IsCommandNamed(s, name) ==
  SizeOk(s) /\ is_command(s) /\ process_command(s) = name

\* s is a valid option number of question q
IsValidOption(s, q) ==
  /\ SizeOk(s)
  /\ DecimalDigits(s)
  /\ 1 <= int(s)
  /\ int(s) <= Len(q.options)

\* C15: a valid option number k for the current question emits 'Correct!',
\* adds one to the correct count and leaves the incorrect collection when k
\* is the correct index; otherwise it emits 'Incorrect.', appends the
\* question to the incorrect collection and leaves the correct count; either
\* way the skipped collection is unchanged and the cursor advances by one.
C15_ValidOptionNumberEffect ==
  [][(ReadsLine /\ IsValidOption(LineRead, AskedQuestion)) =>
       /\ Len(outputs') = Len(outputs) + 2
       /\ int(LineRead) = AskedQuestion.correct =>
            /\ MessageEmitted = "Correct!"
            /\ correct_answers' = correct_answers + 1
            /\ incorrect_questions' = incorrect_questions
       /\ int(LineRead) # AskedQuestion.correct =>
            /\ MessageEmitted = "Incorrect."
            /\ correct_answers' = correct_answers
            /\ incorrect_questions' = Append(incorrect_questions, AskedQuestion)
       /\ skipped_questions' = skipped_questions
       /\ question_index' = question_index + 1]_vars

\* one question was answered wrongly and one correctly
C15_Witness ==
  /\ question_index = 2
  /\ correct_answers = 1
  /\ Len(incorrect_questions) = 1
  /\ skipped_questions = <<>>

\* the lines read so far, trimmed
LinesRead ==
  LET echoes == SelectSeq(outputs, IsEcho)
  IN [i \in 1..Len(echoes) |-> strip(echoes[i].text)]

\* a completed run in which every line read was a valid option number for
\* the question at its position
AnsweredEveryQuestionOnce ==
  /\ pc = "done"
  /\ Len(LinesRead) = Len(questions)
  /\ \A i \in 1..Len(questions) : IsValidOption(LinesRead[i], questions[i])

\* the positions whose answer is the correct index
MatchedPositions ==
  {i \in 1..Len(questions) : int(LinesRead[i]) = questions[i].correct}

IsUnmatched(i) == i \notin MatchedPositions

\* the questions whose answer is not the correct index, in order
UnmatchedQuestions ==
  LET positions == SelectSeq([i \in 1..Len(questions) |-> i], IsUnmatched)
  IN [j \in 1..Len(positions) |-> questions[positions[j]]]

IsScoreLine(o) == o.tag = "Your score: {n}/{m}"

\* C16: a run without commands in which every question gets one valid option
\* number completes with the correct count equal to the number of matching
\* answers and the incorrect collection holding the other questions (all
\* matching: correct = total, none incorrect; none matching: correct = 0, all
\* incorrect), and the score line reads correct/total.
C16_AnswersOnlyRunTallies ==
  AnsweredEveryQuestionOnce =>
    /\ correct_answers = Cardinality(MatchedPositions)
    /\ incorrect_questions = UnmatchedQuestions
    /\ MatchedPositions = 1..Len(questions) =>
         correct_answers = Len(questions) /\ incorrect_questions = <<>>
    /\ MatchedPositions = {} =>
         correct_answers = 0 /\ Len(incorrect_questions) = Len(questions)
    /\ SelectSeq(outputs, IsScoreLine)
         = <<Out("Your score: {n}/{m}", Cardinality(MatchedPositions),
                 Len(questions), <<>>)>>

\* a completed run of two questions, one answered correctly and one wrongly
C16_Witness ==
  /\ AnsweredEveryQuestionOnce
  /\ Len(questions) = 2
  /\ Cardinality(MatchedPositions) = 1

\* C17: a line that is not a skip, restart or quit command and not a valid
\* option number is recoverable: a message is emitted after its echo, the
\* same question goes on waiting for a line, and the cursor, the correct
\* count, the incorrect and skipped collections and the question order are
\* unchanged.
C17_OtherLinesAreRecoverable ==
  [][(/\ ReadsLine
      /\ ~IsCommandNamed(LineRead, "skip")
      /\ ~IsCommandNamed(LineRead, "restart")
      /\ ~IsCommandNamed(LineRead, "quit")
      /\ ~IsValidOption(LineRead, AskedQuestion)) =>
       /\ Len(outputs') = Len(outputs) + 2
       /\ pc' = "input"
       /\ UNCHANGED <<question_index, correct_answers, incorrect_questions,
                      skipped_questions, questions>>]_vars

\* the rejection message the fixed order of checks gives a line, "none" for a
\* command and for a valid option number
Classification(s, q) ==
  IF ~SizeOk(s) THEN "Invalid input size. Please try again."
  ELSE IF is_command(s) THEN "none"
  ELSE IF ~DecimalDigits(s)
       THEN "Invalid input. Please enter a valid option number or command."
  ELSE IF ~(1 <= int(s) /\ int(s) <= Len(q.options))
       THEN "Invalid option number. Please try again."
  ELSE "none"

\* C18: a line is classified by the size check, then command matching, then
\* the digits-only check, then the range check, and a rejected line gets
\* exactly one message, that of the first check it fails.
C18_ClassificationOrder ==
  [][(ReadsLine /\ Classification(LineRead, AskedQuestion) # "none") =>
       /\ Len(outputs') = Len(outputs) + 2
       /\ MessageEmitted = Classification(LineRead, AskedQuestion)]_vars

IsSkipOutput(o) ==
  o.tag \in {"{help_text}", "Question skipped.", "Your score: {n}/{m}",
             "\nSkipped questions: {n}"}

\* C19: a skip command appends the current question to the skipped
\* collection, acknowledges, leaves the correct count and the incorrect
\* collection and advances the cursor by one; at completion the skipped count
\* is the number of skips of the final pass, no skipped question is in the
\* incorrect collection or among the correct answers, the score is out of all
\* questions, and the lines help, skip on one question give the help text,
\* the acknowledgment, score 0/1 and 'Skipped questions: 1'.
C19_SkipEffect ==
  /\ [][(ReadsLine /\ IsCommandNamed(LineRead, "skip")) =>
          /\ skipped_questions' = Append(skipped_questions, AskedQuestion)
          /\ Len(outputs') = Len(outputs) + 2
          /\ MessageEmitted = "Question skipped."
          /\ correct_answers' = correct_answers
          /\ incorrect_questions' = incorrect_questions
          /\ question_index' = question_index + 1]_vars
  /\ [](pc = "done" =>
          /\ Len(skipped_questions) = Len(SelectSeq(CurrentPass, IsSkipEvent))
          /\ \A i \in 1..Len(skipped_questions) :
               /\ \A j \in 1..Len(incorrect_questions) :
                    incorrect_questions[j].id # skipped_questions[i].id
               /\ \A j \in 1..Len(CurrentPass) :
                    CurrentPass[j].ev = "correct" =>
                      CurrentPass[j].q # skipped_questions[i].id
          /\ correct_answers + Len(incorrect_questions) + Len(skipped_questions)
               <= Len(questions)
          /\ SelectSeq(outputs, IsScoreLine)
               = <<Out("Your score: {n}/{m}", correct_answers, Len(questions),
                       <<>>)>>
          /\ (Len(questions) = 1 /\ LinesRead = << <<"h">>, <<"s">> >>) =>
               SelectSeq(outputs, IsSkipOutput)
                 = <<Out("{help_text}", 0, 0, <<>>),
                     Out("Question skipped.", 0, 0, <<>>),
                     Out("Your score: {n}/{m}", 0, 1, <<>>),
                     Out("\nSkipped questions: {n}", 1, 0, <<>>)>>)

\* the run of one question with the lines help, skip has completed
C19_Witness ==
  /\ pc = "done"
  /\ Len(questions) = 1
  /\ LinesRead = << <<"h">>, <<"s">> >>

IsCompletionOutput(o) ==
  o.tag \in {"\nQuiz Completed!", "Your score: {n}/{m}",
             "\nYou missed the following questions:", "- {question}",
             "\nSkipped questions: {n}"}

\* C20: a quit command emits the exit acknowledgment and ends the run with
\* exit status 0: nothing else changes in that step, no step follows it, and
\* the sink ends with the acknowledgment and holds no completion or score
\* line.
C20_QuitEndsRun ==
  /\ [][(ReadsLine /\ IsCommandNamed(LineRead, "quit")) =>
          /\ pc' = "exit0"
          /\ Len(outputs') = Len(outputs) + 2
          /\ MessageEmitted = "Exiting quiz."
          /\ UNCHANGED <<questions, question_index, correct_answers,
                         incorrect_questions, skipped_questions, closed>>]_vars
  /\ [][pc # "exit0"]_vars
  /\ [](pc = "exit0" =>
          /\ outputs[Len(outputs)].tag = "Exiting quiz."
          /\ SelectSeq(outputs, IsCompletionOutput) = <<>>)

\* quit was given at the second question while the transcript still held a
\* line
C20_Witness ==
  /\ pc = "exit0"
  /\ question_index = 1
  /\ lines_left > 0

IsNoQuestionsLine(o) == o.tag = "No questions available."

\* C21: when the question sequence is empty at Start the engine reads no
\* input, presents no question, states that no questions are available and
\* emits no score line.
C21_EmptyQuizReportsNoQuestions ==
  (questions = <<>> /\ pc \in {"loop", "done"}) =>
    /\ LinesRead = <<>>
    /\ history = <<>>
    /\ pc = "done" =>
         /\ SelectSeq(outputs, IsNoQuestionsLine) # <<>>
         /\ SelectSeq(outputs, IsScoreLine) = <<>>

\* the ids of the questions missed in the final pass, in the order missed,
\* and the number of skips of the final pass
MissedIds == EventIds(SelectSeq(CurrentPass, IsIncorrectEvent))
SkipCount == Len(SelectSeq(CurrentPass, IsSkipEvent))

PromptOf(id) ==
  questions[CHOOSE i \in 1..Len(questions) : questions[i].id = id].question

\* what follows the 'Quiz Completed!' line in the sink
AfterCompleted ==
  LET k == CHOOSE i \in 1..Len(outputs) : outputs[i].tag = "\nQuiz Completed!"
  IN SubSeq(outputs, k + 1, Len(outputs))

C23_ChannelReleasedExactlyOnce ==
  /\ closed <= 1
  /\ pc = "done" => closed = 1
  /\ pc = "exit1" => closed = 1
  /\ pc = "exit0" => closed = 0

(***************************************************************************)
(* Claims about EnvironmentHandler in 'file' mode.                         *)
(***************************************************************************)
IsInputCall(c) == c.op = "input"

\* the number of input calls that have returned
InputsReturned == Len(SelectSeq(env_calls, IsInputCall))

\* C24: a read attempted when no input line remains is fatal: it returns no
\* answer, writes nothing and ends the process with exit status 1, after
\* which nothing more is read or written; a blank line that is present is
\* not exhaustion: the read returns it as the empty answer, whose size is
\* invalid, and the handler stays usable.
C24_InputExhaustionIsFatal ==
  /\ [][(env_pc = "open" /\ env_pos = Len(env_input)) =>
          /\ env_calls' = env_calls \/ ~IsInputCall(env_calls'[Len(env_calls')])
          /\ env_pos' = env_pos]_vars
  /\ [][env_pc' = "exit1" =>
          /\ env_pc = "open"
          /\ env_pos = Len(env_input)
          /\ env_output' = env_output
          /\ env_calls' = env_calls]_vars
  /\ [][env_pc # "exit1"]_vars
  /\ [][(env_pc = "open" /\ env_pos < Len(env_input)
           /\ env_input[env_pos + 1] = <<"\n">> /\ env_pos' = env_pos + 1) =>
          /\ env_pc' = "open"
          /\ Len(env_calls') = Len(env_calls) + 1
          /\ env_calls'[Len(env_calls')].ret = <<>>
          /\ ~SizeOk(env_calls'[Len(env_calls')].ret)]_vars

\* a blank line was read and returned, and the next read found the file
\* exhausted
C24_Witness ==
  /\ env_pc = "exit1"
  /\ env_input = << <<"\n">> >>
  /\ InputsReturned = 1

\* the number of input calls among the first j calls
InputCallCount(j) ==
  Cardinality({k \in 1..j : env_calls[k].op = "input"})

\* what the j-th call appends to the sink
Contribution(j) ==
  IF env_calls[j].op = "input"
  THEN env_calls[j].arg \o env_input[InputCallCount(j)]
  ELSE env_calls[j].arg \o <<"\n">>

RECURSIVE SinkUpTo(_)
SinkUpTo(j) == IF j = 0 THEN <<>> ELSE SinkUpTo(j - 1) \o Contribution(j)

\* C25: the sink holds what the calls wrote, in the order of the calls: the
\* k-th read writes its prompt and the k-th input line and returns that line
\* trimmed, and an output call writes its text as one line.
C25_SinkFollowsCallOrder ==
  /\ env_output = SinkUpTo(Len(env_calls))
  /\ env_pos = InputCallCount(Len(env_calls))
  /\ \A j \in 1..Len(env_calls) :
       env_calls[j].op = "input" =>
         env_calls[j].ret = strip(env_input[InputCallCount(j)])

\* a read, an output and a second read were made on a file of two lines, the
\* first of which has surrounding whitespace
C25_Witness ==
  /\ Len(env_calls) = 3
  /\ env_calls[1].op = "input"
  /\ env_calls[2].op = "output"
  /\ env_calls[3].op = "input"
  /\ env_input[1] = <<" ", "s", " ", "\n">>

(***************************************************************************)
(* Claims about the CommandProcessor.                                      *)
(***************************************************************************)
\* the declared table: each alias with the command it names
DeclaredTable ==
  {<<<<"r", "e", "s", "t", "a", "r", "t">>, "restart">>,
   <<<<"r">>, "restart">>,
   <<<<"s", "k", "i", "p">>, "skip">>,
   <<<<"s">>, "skip">>,
   <<<<"n">>, "skip">>,
   <<<<"n", "e", "x", "t">>, "skip">>,
   <<<<"q", "u", "i", "t">>, "quit">>,
   <<<<"q">>, "quit">>,
   <<<<"h", "e", "l", "p">>, "help">>,
   <<<<"h">>, "help">>,
   <<<<"?">>, "help">>}

DeclaredAliases == {e[1] : e \in DeclaredTable}

\* s with every letter in lower case, in upper case, and with the case of
\* every letter inverted
AllLower(s) == [i \in 1..Len(s) |-> LowerChar(s[i])]
AllUpper(s) == [i \in 1..Len(s) |-> UpperChar(s[i])]
SwapCase(s) ==
  [i \in 1..Len(s) |-> IF LowerChar(s[i]) = s[i] THEN UpperChar(s[i])
                       ELSE LowerChar(s[i])]

\* C26: the resolver maps exactly the declared aliases: restart, r to
\* restart; skip, s, n, next to skip; quit, q to quit; help, h, ? to help;
\* every alias is listed by exactly one command, so every entry of the table
\* that lists the input names the same command, whatever the search order.
C26_AliasTableIsExact ==
  /\ \A e \in DeclaredTable :
       Cardinality({i \in 1..Len(commands) :
                      InAliases(e[1], commands[i].aliases)}) = 1
  /\ cmd_name # "unset" =>
       /\ \A e \in DeclaredTable : cmd_input = e[1] => cmd_name = e[2]
       /\ (cmd_input = AllLower(cmd_input) /\ cmd_input \notin DeclaredAliases)
            => cmd_name = "None"
       /\ \A i \in 1..Len(commands) :
            InAliases(AllLower(cmd_input), commands[i].aliases) =>
              commands[i].command = cmd_name

\* the resolver was given the alias n
C26_Witness ==
  /\ cmd_input = <<"n">>
  /\ cmd_name = "skip"

RECURSIVE LinesOf(_)
LinesOf(text) ==
  IF Len(text) = 0 THEN <<>>
  ELSE LET k == CHOOSE i \in 1..(Len(text) + 1) :
                  /\ i = Len(text) + 1 \/ text[i] = "\n"
                  /\ \A j \in 1..(i - 1) : text[j] # "\n"
       IN <<SubSeq(text, 1, k - 1)>>
            \o LinesOf(SubSeq(text, k + 1, Len(text)))

\* C28: the help text is a header followed by one line per command, in the
\* order restart, skip, quit, help, each line listing the command's aliases
\* in table order separated by ', '.
C28_HelpTextListsAliases ==
  cmd_help # <<>> =>
    LET lines == LinesOf(cmd_help)
        expected ==
          <<<<"r", "e", "s", "t", "a", "r", "t", ",", " ", "r">>,
       <<"s", "k", "i", "p", ",", " ", "s", ",", " ", "n", ",", " ", "n", "e", "x", "t">>,
       <<"q", "u", "i", "t", ",", " ", "q">>,
       <<"h", "e", "l", "p", ",", " ", "h", ",", " ", "?">>>>
    IN /\ Len(lines) = 5
       /\ lines[1] = <<"A", "v", "a", "i", "l", "a", "b", "l", "e", " ", "c", "o", "m", "m", "a", "n", "d", "s", ":">>
       /\ \A i \in 1..4 : strip(lines[i + 1]) = expected[i]

\* get_help_text has been called
C28_Witness ==
  /\ cmd_help # <<>>
  /\ Len(LinesOf(cmd_help)) > 1

(***************************************************************************)
(* Claims about what the session writes.                                   *)
(***************************************************************************)
IsMetadataLine(o) ==
  o.tag \in {"=== {title} ===", "{subtitle}", "{description}"} /\ o.m = 0

\* the metadata lines of the quiz: one for each field that is present, in
\* the order title, subtitle, description
MetadataLines ==
  (IF quiz_info.title # PyNone
   THEN <<Out("=== {title} ===", 0, 0, quiz_info.title.val)>> ELSE <<>>)
  \o (IF quiz_info.subtitle # PyNone
      THEN <<Out("{subtitle}", 0, 0, quiz_info.subtitle.val)>> ELSE <<>>)
  \o (IF quiz_info.description # PyNone
      THEN <<Out("{description}", 0, 0, quiz_info.description.val)>>
      ELSE <<>>)

\* the lines that present question q at cursor c: its title and subtitle
\* when present, its 1-based index with the prompt, its numbered options
QuestionLines(q, c) ==
  (IF q.title # PyNone
   THEN <<Out("\n{title}", 0, q.id, q.title.val)>> ELSE <<>>)
  \o (IF q.subtitle # PyNone
      THEN <<Out("{subtitle}", 0, q.id, q.subtitle.val)>> ELSE <<>>)
  \o <<Out("\nQuestion {n}: {question}", c + 1, q.id, q.question)>>
  \o [k \in 1..Len(q.options) |->
        Out("{idx}. {option}", k, q.id, q.options[k])]

\* C29: at Start a metadata line is emitted for each of title, subtitle and
\* description that is present, in that order and before any question; a
\* question is presented as its title and subtitle when present, then its
\* 1-based index with the prompt, then each option with its 1-based number.
C29_MetadataAndQuestionRendering ==
  /\ [](pc = "start" => outputs = <<>>)
  /\ [](pc # "start" =>
          /\ SubSeq(outputs, 1, Len(MetadataLines)) = MetadataLines
          /\ SelectSeq(outputs, IsMetadataLine) = MetadataLines)
  /\ [][(pc = "loop" /\ pc' = "input") =>
          outputs' = outputs \o QuestionLines(AskedQuestion, question_index)]_vars

\* a quiz with a title presents, as its second question, one without title
\* or subtitle after one that has both
C29_Witness ==
  /\ pc = "input"
  /\ question_index = 1
  /\ quiz_info.title # PyNone
  /\ quiz_info.subtitle = PyNone
  /\ questions[1].title # PyNone
  /\ questions[1].subtitle # PyNone
  /\ questions[2].title = PyNone
  /\ questions[2].subtitle = PyNone

\* C30: whenever a run reaches completion, the correct count plus the sizes
\* of the incorrect and skipped collections equals the total of the score
\* line, the length of the question sequence, restarts included.
C30_TalliesSumToTotal ==
  pc = "done" =>
    /\ SelectSeq(outputs, IsScoreLine)
         = <<Out("Your score: {n}/{m}", correct_answers, Len(questions), <<>>)>>
    /\ correct_answers + Len(incorrect_questions) + Len(skipped_questions)
         = Len(questions)

\* the accepted sequence the session was constructed with
HandedOver == [k \in 1..Len(questions) |-> SessionQuestion(k)]

\* C31: in every reachable session state 0 <= cursor <= length of the
\* question sequence, a question is presented only when cursor < length, and
\* the sequence is a permutation of the accepted sequence handed over to the
\* session: shuffle and restart change the order only, never the length, the
\* membership or the contents of a record.
C31_CursorAndSequenceInvariant ==
  /\ 0 <= question_index
  /\ question_index <= Len(questions)
  /\ (pc = "input" => question_index < Len(questions))
  /\ \A i \in 1..Len(history) :
       history[i].ev = "present" => history[i].pos < Len(questions)
  /\ IsPermutationOf(questions, HandedOver)

C31_Witness ==
  /\ Len(questions) = 2
  /\ RecordIds(questions) = <<2, 1>>
  /\ RestartPositions # {}
  /\ pc = "input"

\* C32: whenever a question is being presented or the run has completed, no
\* question occurs twice in the incorrect collection or twice in the skipped
\* collection, no question is in both, and correct count + size of incorrect
\* + size of skipped <= cursor <= total.
C32_TalliesBoundedByCursor ==
  pc \in {"input", "done"} =>
    /\ \A i, j \in 1..Len(incorrect_questions) :
         incorrect_questions[i].id = incorrect_questions[j].id
           => i = j
    /\ \A i, j \in 1..Len(skipped_questions) :
         skipped_questions[i].id = skipped_questions[j].id => i = j
    /\ \A i \in 1..Len(incorrect_questions) : \A j \in 1..Len(skipped_questions) :
         incorrect_questions[i].id # skipped_questions[j].id
    /\ correct_answers + Len(incorrect_questions) + Len(skipped_questions)
         <= question_index
    /\ question_index <= Len(questions)
    /\ correct_answers <= Len(questions)

C32_Witness ==
  /\ pc = "done"
  /\ correct_answers = 0
  /\ Len(incorrect_questions) = 1
  /\ Len(skipped_questions) = 1

IsPresentEvent(e) == e.ev = "present"
IsQuestionNumberLine(o) == o.tag = "\nQuestion {n}: {question}"

\* the presentations of the current pass, and the question-number lines
\* written so far
PassPresentations == SelectSeq(CurrentPass, IsPresentEvent)
QuestionNumberLines == SelectSeq(outputs, IsQuestionNumberLine)

\* C33: in a pass that contains no restart the questions are presented in
\* sequence order, each position exactly once, labelled Question 1 through
\* Question N consecutively, and a question that has been answered or skipped
\* is never presented again in that pass.
C33_PassPresentsEachPositionOnce ==
  /\ \A i \in 1..Len(PassPresentations) :
       /\ PassPresentations[i].pos = i - 1
       /\ PassPresentations[i].q = questions[i].id
  /\ PassPresentations # <<>> =>
       QuestionNumberLines[Len(QuestionNumberLines)].n = Len(PassPresentations)
  /\ pc = "done" => Len(PassPresentations) = Len(questions)
  /\ \A i, j \in 1..Len(CurrentPass) :
       (/\ i < j
        /\ CurrentPass[i].ev \in {"correct", "incorrect", "skip"}
        /\ CurrentPass[j].ev = "present")
         => CurrentPass[j].q # CurrentPass[i].q

\* the same statement for the runs in which no restart command was given
C33_HoldsWithoutRestart == RestartPositions = {} => C33_PassPresentsEachPositionOnce

\* the run has stopped: no statement of Quiz.start is left to execute
Stopped == pc \notin {"start", "loop", "input"}

\* C34: with a finite input every run terminates in exactly one of the
\* outcomes completed (results shown), quit, or fatal input exhaustion,
\* whatever lines the input holds, and it never reads more lines than the
\* input contains: a run that has stopped has stopped in one of the three
\* outcomes, and the number of lines left never falls below zero.
C34_RunsEndInDeclaredOutcome ==
  /\ lines_left >= 0
  /\ Stopped => pc \in {"done", "exit0", "exit1"}
  /\ pc = "done" <=> SelectSeq(outputs, IsCompletionOutput) # <<>>

IsQuizCompletedLine(o) == o.tag = "\nQuiz Completed!"

\* the headings of the results written to a sink
ResultsIn(sink) == SelectSeq(sink, IsQuizCompletedLine)

\* C35: results are emitted at most once per run and only in a state where
\* the cursor equals the sequence length; after results are emitted no input
\* is read and no session state changes.
C35_ResultsOnceAtEnd ==
  /\ [](Len(ResultsIn(outputs)) <= 1)
  /\ [][(Len(ResultsIn(outputs')) > Len(ResultsIn(outputs))) =>
          (/\ question_index = Len(questions)
           /\ ResultsIn(outputs) = <<>>)]_vars
  /\ [][(ResultsIn(outputs) # <<>>) =>
          (/\ lines_left' = lines_left
           /\ quizVars' = quizVars)]_vars

\* results shown for a two-question quiz while input lines remain unread
C35_Witness ==
  /\ ResultsIn(outputs) # <<>>
  /\ Len(questions) = 2
  /\ lines_left > 0
  /\ question_index = 2

CommandNames == {commands[i].command : i \in 1..Len(commands)}
IsUnknownCommandLine(o) ==
  o.tag = "Unknown command. Type 'help' for available commands."

\* C36: the predicate and the resolver agree: is_command(s) is true exactly
\* when process_command(s) returns a command name, so in the answer loop an
\* input recognised as a command resolves to one of restart, skip, quit or
\* help and the 'Unknown command' message is never written.
C36_RecognisedCommandsResolve ==
  /\ [][ReadsLine =>
          /\ is_command(LineRead) <=> process_command(LineRead) \in CommandNames
          /\ process_command(LineRead) \in CommandNames \cup {"None"}]_vars
  /\ [](CommandNames = {"restart", "skip", "quit", "help"})
  /\ [](SelectSeq(outputs, IsUnknownCommandLine) = <<>>)

\* the session has handled the command typed as 'R'
C36_Witness ==
  \E i \in 1..Len(outputs) : outputs[i].tag = "Restarting quiz..."

\* a line of the sink whose text comes from the quiz document
IsDocumentLine(o) ==
  o.tag \in {"=== {title} ===", "{subtitle}", "{description}", "\n{title}",
             "\nQuestion {n}: {question}", "{idx}. {option}", "- {question}"}

\* text is what the policy makes of a text of admissible length
IsSanitized(policy, text) ==
  /\ ~ContainsAngle(text)
  /\ sanitize_text(policy, text) = PyStr(text)

\* C37: every string the session emits that originates in the quiz document
\* (quiz title, subtitle, description, question titles, prompts, options) has
\* been passed through the sanitization policy; in particular under reject
\* no emitted document string contains '<' or '>'.
C37_EmittedDocumentStringsSanitized ==
  \A i \in 1..Len(outputs) :
    IsDocumentLine(outputs[i]) =>
      /\ sanitization_policy = "reject" => ~ContainsAngle(outputs[i].text)
      /\ (Len(outputs[i].text) \in 1..max_length) =>
           IsSanitized(sanitization_policy, outputs[i].text)

\* the same statement for the strings of questions only
C37_HoldsForQuestionStrings ==
  \A i \in 1..Len(outputs) :
    (IsDocumentLine(outputs[i]) /\ outputs[i].m # 0) =>
      /\ sanitization_policy = "reject" => ~ContainsAngle(outputs[i].text)
      /\ (Len(outputs[i].text) \in 1..max_length) =>
           IsSanitized(sanitization_policy, outputs[i].text)

\* sanitized has the shape of the raw question under the policy
SameShape(policy, question, sanitized) ==
  /\ Len(sanitized) = Len(question)
  /\ \A i \in 1..Len(question) :
       LET value == question[i].value
           result == sanitized[i].value
       IN /\ sanitized[i].key = question[i].key
          /\ value.type \notin {"str", "list"} => result = value
          /\ value.type = "str" => result = sanitize_text(policy, value.val)
          /\ value.type = "list" =>
               /\ result.type = "list"
               /\ Len(result.val) = Len(value.val)
               /\ \A j \in 1..Len(value.val) :
                    result.val[j] = sanitize_text(policy, value.val[j].val)

\* the raw questions the load has sanitized into a candidate
SanitizedPositions ==
  {k \in 1..load_pos :
     sanitize_question(sanitization_policy, raw_questions[k]).type = "dict"}

\* C38: sanitizing a question preserves its shape: the sanitized candidate
\* has the field names of the raw question, every value that is neither a
\* string nor a list is passed through unchanged, and every list field keeps
\* its length and element order with each element sanitized on its own.
C38_SanitizePreservesShape ==
  \A k \in SanitizedPositions :
    SameShape(sanitization_policy, raw_questions[k].val,
              sanitize_question(sanitization_policy, raw_questions[k]).val)

\* a list with an element that the policy empties, and a question with a
\* value that is neither a string nor a list, have been sanitized
C38_Witness ==
  /\ sanitization_policy = "remove"
  /\ load_pos = 2
  /\ \A k \in 1..2 : k \in SanitizedPositions
  /\ HasKey(raw_questions[1].val, "options")
  /\ Get(raw_questions[1].val, "options")
       = PyList(<<PyStr(<<"a">>), PyStr(<<">">>)>>)
  /\ HasKey(raw_questions[2].val, "note")
  /\ Get(raw_questions[2].val, "note") = PyInt(7)

\* C39: loading is repeatable: a further call of load_quiz_data replaces the
\* accepted sequence with the result of loading the source afresh under the
\* current policy and cap; questions accepted by an earlier load are neither
\* retained nor duplicated, so two loads of an unchanged source give the same
\* sequence as one.
C39_ReloadReplacesAccepted ==
  load_pc = "done" =>
    LET accepted == AcceptedUpTo(Len(raw_questions))
    IN /\ loaded = IF quiz_length > 0 /\ Len(accepted) > quiz_length
                   THEN [i \in 1..quiz_length |-> accepted[i]]
                   ELSE accepted
       /\ \A i, j \in 1..Len(origin) : i < j => origin[i] < origin[j]

\* the same statement for the load the constructor performs
C39_HoldsForFirstLoad == load_calls = 1 => C39_ReloadReplacesAccepted

====
